---- MODULE Spec2Model ----
(***************************************************************************)
(* Forum backend: the Post and Comment documents, their embedded voter and *)
(* report lists, and the request handlers that change them.                *)
(*                                                                         *)
(* A document collection is a sequence; a document's _id is its position.  *)
(* A handler is one action: it reads its inputs, answers in `res` and      *)
(* stores what its save()/create()/updateMany() calls store.               *)
(***************************************************************************)
EXTENDS Integers, Sequences, FiniteSets, TLC

VARIABLES
    users,      \* User collection: _id -> [role, membership, membershipExpiry, badges, isActive]
    posts,      \* Post collection
    tags,       \* Tag collection: name -> [usageCount, isActive]
    comments,   \* Comment collection
    announcements, \* Announcement collection
    searches,   \* Search collection: normalizedTerm -> [searchCount, lastSearched]
    now,        \* the clock read by new Date(), in days
    reqs,       \* requests suspended at an await: slot -> context
    res,        \* the response to the last request: [status, message]
    lastVote,   \* history of votePost: the last accepted request and what it found
    client      \* the browser: the auth store's state, localStorage, its calls in flight

vars == <<users, posts, tags, comments, announcements, searches, now, reqs, res, lastVote,
          client>>

(***************************************************************************)
(* Bounds of the model.                                                    *)
(***************************************************************************)
NumUsers == 2
MaxPosts == 6
MaxComments == 1
MaxReports == 2
MaxInflight == 2
MaxYears == 2
MaxUsage == 3
MaxSearchCount == 5

UserIds == 1..NumUsers
NoDate == -1
NoVote == "null"

(***************************************************************************)
(* Data model.                                                             *)
(***************************************************************************)
VoteTypes == {"up", "down"}

\* The voteType values a request body carries: the two valid ones and another.
VoteInputs == VoteTypes \cup {"sideways"}

Visibilities == {"public", "private"}

ReportStatuses == {"pending", "reviewed", "resolved", "dismissed"}

ModerationStatuses == {"approved", "pending", "flagged", "removed"}

\* The feedback enum, of which the model uses one value.
Feedbacks == {"Spam or promotional content"}

\* The feedback values a request body carries: valid, missing, outside the enum.
FeedbackInputs == Feedbacks \cup {"", "Rude"}

PostLimit == 5

\* 365 * 24 * 60 * 60 * 1000 ms, in days.
GoldPeriod == 365

\* req.user absent on the server, state.user null in the client.
NoUser == 0

\* localStorage.getItem('token') when no token is stored.
NoToken == 0

\* initialState of the client auth store, given the persisted token.
initialState(token) ==
    [user |-> NoUser,
     loading |-> TRUE,
     error |-> "null",
     isAuthenticated |-> FALSE,
     token |-> token]

\* The browser when the AuthProvider mounts with the given token persisted:
\* no call of the store is in flight.
ClientAt(token) ==
    [state |-> initialState(token),
     localStorage |-> token,
     checkAuth |-> [pc |-> "mount", token |-> NoToken],
     login |-> "idle",
     register |-> "idle",
     logout |-> "idle",
     updateProfile |-> "idle"]

\* The registered accounts: user 1 is an admin, the others are plain bronze
\* users; the pre('save') hook gave each its bronze badge on creation.
InitUsers ==
    [u \in UserIds |->
        [role |-> IF u = 1 THEN "admin" ELSE "user",
         membership |-> "bronze",
         membershipExpiry |-> NoDate,
         badges |-> <<[type |-> "bronze", earnedAt |-> 0]>>,
         isActive |-> TRUE]]

\* The Tag documents as Tag.create stores them: name -> [usageCount, isActive].
InitTags == [t \in {"js", "css"} |-> [usageCount |-> 0, isActive |-> TRUE]]

Response(status, message) == [status |-> status, message |-> message]

NoResponse == Response(0, "")

\* The 403 of createPost at the post limit, with its postLimit flag.
LimitReached ==
    [status |-> 403,
     message |-> "Post limit reached. Upgrade to Gold membership for unlimited posts.",
     postLimit |-> TRUE]

\* What a votePost request finds before it changes the post.
Found(existingVote, upVote, downVote) ==
    [existingVote |-> existingVote, upVote |-> upVote, downVote |-> downVote]

NoneFound == Found(NoVote, -1, -1)

\* No accepted votePost request immediately precedes.
NoLastVote ==
    [user |-> 0, post |-> 0, voteType |-> NoVote, found |-> NoneFound, before |-> NoneFound]

(***************************************************************************)
(* User model and middleware.                                              *)
(***************************************************************************)
\* Faulty variant of hasMembership: gold still counts at the instant of expiry.
hasMembership_inclusiveExpiry(user) ==
    /\ user.membership = "gold"
    /\ (user.membershipExpiry = NoDate \/ user.membershipExpiry >= now)

hasMembership(user) ==
    /\ user.membership = "gold"
    /\ (user.membershipExpiry = NoDate \/ user.membershipExpiry > now)

\* Faulty variant of upgradeToGold: the badge is pushed on every call.
upgradeToGold_alwaysPushes(user) ==
    [user EXCEPT !.membership = "gold",
                 !.membershipExpiry = now + GoldPeriod,
                 !.badges = Append(@, [type |-> "gold", earnedAt |-> now])]

upgradeToGold(user) ==
    LET hasGoldBadge == \E i \in DOMAIN user.badges : user.badges[i].type = "gold"
    IN  [user EXCEPT !.membership = "gold",
                     !.membershipExpiry = now + GoldPeriod,
                     !.badges = IF ~hasGoldBadge
                                THEN Append(@, [type |-> "gold", earnedAt |-> now])
                                ELSE @]

\* protect: the token's user exists and is active.
protect(u) == u \in DOMAIN users /\ users[u].isActive

\* admin: the request goes on to the handler ...
admin(u) == users[u].role = "admin"

\* ... or is answered 403 by the middleware.
adminDenied(u) ==
    /\ protect(u)
    /\ ~admin(u)
    /\ res' = Response(403, "Admin access required")
    /\ lastVote' = NoLastVote
    /\ UNCHANGED <<client, users, posts, tags, comments, announcements, searches, now, reqs>>

\* requireMembership behind protect: next() writes no response of its own.
requireMembership(u) ==
    /\ protect(u)
    /\ res' = IF hasMembership(users[u])
              THEN NoResponse
              ELSE Response(403, "Gold membership required for this action")
    /\ lastVote' = NoLastVote
    /\ UNCHANGED <<client, users, posts, tags, comments, announcements, searches, now, reqs>>

\* Time passes.
Tick(days) ==
    /\ now + days <= MaxYears * GoldPeriod
    /\ now' = now + days
    /\ UNCHANGED <<client, users, posts, tags, comments, announcements, searches, reqs, res, lastVote>>

(***************************************************************************)
(* Post model.                                                             *)
(***************************************************************************)
CountVotes(voters, voteType) ==
    Len(SelectSeq(voters, LAMBDA voter : voter.voteType = voteType))

WithoutVoter(voters, userId) ==
    SelectSeq(voters, LAMBDA voter : voter.userId # userId)

\* A Post as Post.create stores it (schema defaults).
NewPost(author, postTags) ==
    [author |-> author,
     tags |-> postTags,
     upVote |-> 0,
     downVote |-> 0,
     voters |-> <<>>,
     visibility |-> "public",
     isActive |-> TRUE]

\* Faulty variants of vote, used to test the voting properties.
vote_countsBeforeRemoval(post, userId, voteType) ==
    LET kept == WithoutVoter(post.voters, userId)
        currentUpVotes == CountVotes(post.voters, "up")
        currentDownVotes == CountVotes(post.voters, "down")
        pushed == Append(kept, [userId |-> userId, voteType |-> voteType])
    IN  IF voteType = "up"
        THEN [post EXCEPT !.voters = pushed,
                          !.upVote = currentUpVotes + 1,
                          !.downVote = currentDownVotes]
        ELSE [post EXCEPT !.voters = pushed,
                          !.downVote = currentDownVotes + 1,
                          !.upVote = currentUpVotes]

vote_keepsEarlierEntry(post, userId, voteType) ==
    LET pushed == Append(post.voters, [userId |-> userId, voteType |-> voteType])
    IN  [post EXCEPT !.voters = pushed,
                     !.upVote = CountVotes(pushed, "up"),
                     !.downVote = CountVotes(pushed, "down")]

vote_dropsOtherVoters(post, userId, voteType) ==
    [post EXCEPT !.voters = <<[userId |-> userId, voteType |-> voteType]>>,
                 !.upVote = IF voteType = "up" THEN 1 ELSE 0,
                 !.downVote = IF voteType = "down" THEN 1 ELSE 0]

vote(post, userId, voteType) ==
    LET kept == WithoutVoter(post.voters, userId)
        currentUpVotes == CountVotes(kept, "up")
        currentDownVotes == CountVotes(kept, "down")
        pushed == Append(kept, [userId |-> userId, voteType |-> voteType])
    IN  IF voteType = "up"
        THEN [post EXCEPT !.voters = pushed,
                          !.upVote = currentUpVotes + 1,
                          !.downVote = currentDownVotes]
        ELSE [post EXCEPT !.voters = pushed,
                          !.downVote = currentDownVotes + 1,
                          !.upVote = currentUpVotes]

\* Faulty variant of removeVote: the counts are not recomputed.
removeVote_staleCounts(post, userId) ==
    [post EXCEPT !.voters = WithoutVoter(post.voters, userId)]

removeVote(post, userId) ==
    LET kept == WithoutVoter(post.voters, userId)
    IN  [post EXCEPT !.voters = kept,
                     !.upVote = CountVotes(kept, "up"),
                     !.downVote = CountVotes(kept, "down")]

getUserVote(post, userId) ==
    LET found == SelectSeq(post.voters, LAMBDA voter : voter.userId = userId)
    IN  IF Len(found) > 0 THEN found[1].voteType ELSE NoVote

(***************************************************************************)
(* Tag model.                                                              *)
(***************************************************************************)
\* String.toLowerCase().trim() on the tag names a request can carry.
normalizeTag(tag) ==
    CASE tag = "JS " -> "js"
      [] tag = "js" -> "js"
      [] tag = "Css" -> "css"
      [] OTHER -> tag

RECURSIVE normalizeTags(_)
normalizeTags(tagList) ==
    IF tagList = <<>> THEN <<>>
    ELSE <<normalizeTag(Head(tagList))>> \o normalizeTags(Tail(tagList))

\* Tag.findOne({name}) followed by incrementUsage, for each name in turn.
RECURSIVE incrementUsage(_, _)
incrementUsage(tagDocs, names) ==
    IF names = <<>> THEN tagDocs
    ELSE LET name == Head(names)
             next == IF name \in DOMAIN tagDocs
                     THEN [tagDocs EXCEPT ![name].usageCount = @ + 1]
                     ELSE tagDocs
         IN  incrementUsage(next, Tail(names))

(***************************************************************************)
(* Post controller.                                                        *)
(***************************************************************************)
ActivePostCount(u) ==
    Cardinality({p \in DOMAIN posts : posts[p].author = u /\ posts[p].isActive})

\* Faulty variant of createPost: the post limit is not checked.
createPost_skipsLimit(u, reqTags) ==
    /\ protect(u)
    /\ Len(posts) < MaxPosts
    /\ UNCHANGED <<client, users, comments, announcements, searches, now, reqs>>
    /\ lastVote' = NoLastVote
    /\ IF reqTags = <<>>
       THEN /\ res' = Response(400, "Please provide title, description, and at least one tag")
            /\ UNCHANGED <<posts, tags>>
       ELSE /\ posts' = Append(posts, NewPost(u, normalizeTags(reqTags)))
            /\ tags' = incrementUsage(tags, normalizeTags(reqTags))
            /\ res' = Response(201, "Post created successfully")

createPost(u, reqTags) ==
    /\ protect(u)
    /\ Len(posts) < MaxPosts
    /\ UNCHANGED <<client, users, comments, announcements, searches, now, reqs>>
    /\ lastVote' = NoLastVote
    /\ IF reqTags = <<>>
       THEN /\ res' = Response(400, "Please provide title, description, and at least one tag")
            /\ UNCHANGED <<posts, tags>>
       ELSE IF ~hasMembership(users[u]) /\ ActivePostCount(u) >= PostLimit
       THEN /\ res' = LimitReached
            /\ UNCHANGED <<posts, tags>>
       ELSE /\ posts' = Append(posts, NewPost(u, normalizeTags(reqTags)))
            /\ tags' = incrementUsage(tags, normalizeTags(reqTags))
            /\ res' = Response(201, "Post created successfully")

\* checkPostOwnership and the handler's own check agree: author or admin.
updatePost(u, p, visibility, reqTags) ==
    /\ protect(u)
    /\ UNCHANGED <<client, users, comments, announcements, searches, now, reqs>>
    /\ lastVote' = NoLastVote
    /\ IF p \notin DOMAIN posts
       THEN /\ res' = Response(404, "Post not found")
            /\ UNCHANGED <<posts, tags>>
       ELSE IF posts[p].author # u /\ users[u].role # "admin"
       THEN /\ res' = Response(403, "Not authorized to access this post")
            /\ UNCHANGED <<posts, tags>>
       ELSE LET v == IF visibility # "" THEN visibility ELSE posts[p].visibility
                t == IF Len(reqTags) > 0 THEN normalizeTags(reqTags) ELSE posts[p].tags
            IN  /\ posts' = [posts EXCEPT ![p].visibility = v, ![p].tags = t]
                /\ tags' = IF Len(reqTags) > 0
                           THEN incrementUsage(tags, normalizeTags(reqTags))
                           ELSE tags
                /\ Len(reqTags) > 0 => \A name \in DOMAIN tags :
                                           tags'[name].usageCount <= MaxUsage
                /\ res' = Response(200, "Post updated successfully")

deletePost(u, p) ==
    /\ protect(u)
    /\ UNCHANGED <<client, users, tags, comments, announcements, searches, now, reqs>>
    /\ lastVote' = NoLastVote
    /\ IF p \notin DOMAIN posts
       THEN /\ res' = Response(404, "Post not found")
            /\ UNCHANGED posts
       ELSE IF posts[p].author # u /\ users[u].role # "admin"
       THEN /\ res' = Response(403, "Not authorized to access this post")
            /\ UNCHANGED posts
       ELSE /\ posts' = [posts EXCEPT ![p].isActive = FALSE]
            /\ res' = Response(200, "Post deleted successfully")

\* Faulty variant of the private-post check: the comparison is inverted.
privatePostOfAnother_inverted(post, u) ==
    post.visibility = "private" /\ post.author = u

\* The post is private and the requesting user is not its author.
privatePostOfAnother(post, u) ==
    post.visibility = "private" /\ post.author # u

votePost(u, p, voteType) ==
    /\ protect(u)
    /\ UNCHANGED <<client, users, tags, comments, announcements, searches, now, reqs>>
    /\ IF voteType \notin VoteTypes
       THEN /\ res' = Response(400, "Please provide valid vote type (up or down)")
            /\ lastVote' = NoLastVote
            /\ UNCHANGED posts
       ELSE IF p \notin DOMAIN posts
       THEN /\ res' = Response(404, "Post not found")
            /\ lastVote' = NoLastVote
            /\ UNCHANGED posts
       ELSE IF privatePostOfAnother(posts[p], u)
       THEN /\ res' = Response(403, "Cannot vote on private post")
            /\ lastVote' = NoLastVote
            /\ UNCHANGED posts
       ELSE /\ lastVote' =
                 [user |-> u, post |-> p, voteType |-> voteType,
                  found |-> Found(getUserVote(posts[p], u), posts[p].upVote, posts[p].downVote),
                  before |-> IF lastVote.user = u /\ lastVote.post = p
                                  /\ lastVote.voteType = voteType
                             THEN lastVote.found
                             ELSE NoneFound]
            /\ IF getUserVote(posts[p], u) = voteType
               THEN /\ posts' = [posts EXCEPT ![p] = removeVote(@, u)]
                    /\ res' = Response(200, IF voteType = "up" THEN "Upvote removed"
                                                               ELSE "Downvote removed")
               ELSE /\ posts' = [posts EXCEPT ![p] = vote(@, u, voteType)]
                    /\ res' = Response(200, IF voteType = "up" THEN "Upvoted successfully"
                                                               ELSE "Downvoted successfully")

(***************************************************************************)
(* Voting: a post under updatePost, deletePost and votePost requests, one   *)
(* request at a time.                                                      *)
(***************************************************************************)
\* The store before any post or comment is written.
Init ==
    /\ users = InitUsers
    /\ posts = <<>>
    /\ tags = InitTags
    /\ comments = <<>>
    /\ announcements = <<>>
    /\ searches = <<>>
    /\ now = 0
    /\ reqs = [r \in 1..MaxInflight |-> [pc |-> "idle"]]
    /\ res = NoResponse
    /\ lastVote = NoLastVote
    /\ client = ClientAt(NoToken)

\* The ids a request names where one document is stored: its id and another.
IdInputs == {1, 2}

\* One public post exists, as createPost by any one user with the tag "JS "
\* leaves it.
InitWithPost ==
    /\ users = InitUsers
    /\ \E author \in UserIds : posts = <<NewPost(author, normalizeTags(<<"JS ">>))>>
    /\ tags = incrementUsage(InitTags, normalizeTags(<<"JS ">>))
    /\ comments = <<>>
    /\ announcements = <<>>
    /\ searches = <<>>
    /\ now = 0
    /\ reqs = [r \in 1..MaxInflight |-> [pc |-> "idle"]]
    /\ res = NoResponse
    /\ lastVote = NoLastVote
    /\ client = ClientAt(NoToken)

NextVote ==
    \/ \E u \in UserIds, p \in IdInputs, v \in Visibilities : updatePost(u, p, v, <<>>)
    \/ \E u \in UserIds, p \in IdInputs : deletePost(u, p)
    \/ \E u \in UserIds, p \in IdInputs, t \in VoteInputs : votePost(u, p, t)

SpecVote == InitWithPost /\ [][NextVote]_vars

(***************************************************************************)
(* Comment model.                                                          *)
(***************************************************************************)
\* A Comment as Comment.create stores it (schema defaults, pre('save') run).
NewComment(post, author, content) ==
    [post |-> post,
     author |-> author,
     content |-> content,
     isActive |-> TRUE,
     reports |-> <<>>,
     isReported |-> FALSE,
     moderationStatus |-> "approved"]

HasReported(comment, userId) ==
    \E i \in DOMAIN comment.reports : comment.reports[i].reportedBy = userId

\* Faulty variant of the pre('save') hook: a single report does not count.
preSave_needsTwoReports(comment) ==
    [comment EXCEPT !.isReported = Len(comment.reports) > 1]

\* pre('save'): isReported follows the report list.
preSave(comment) ==
    [comment EXCEPT !.isReported = Len(comment.reports) > 0]

\* document.save() of a Comment that was loaded as `loaded` and changed in
\* memory to `doc`, onto the document `stored` in the collection: the hook
\* runs, then only what differs from `loaded` is written -- a changed field
\* is set, a changed report status is set in place, pushed reports are
\* appended to the stored list.
saveComment(stored, loaded, doc) ==
    LET d == preSave(doc)
        known == Len(loaded.reports)
        pushed == SubSeq(d.reports, known + 1, Len(d.reports))
        inPlace == [i \in DOMAIN stored.reports |->
                       IF i <= known /\ d.reports[i].status # loaded.reports[i].status
                       THEN [stored.reports[i] EXCEPT !.status = d.reports[i].status]
                       ELSE stored.reports[i]]
    IN  [post |-> stored.post,
         author |-> stored.author,
         content |-> IF d.content # loaded.content THEN d.content ELSE stored.content,
         isActive |-> IF d.isActive # loaded.isActive THEN d.isActive ELSE stored.isActive,
         reports |-> inPlace \o pushed,
         isReported |-> IF d.isReported # loaded.isReported
                        THEN d.isReported ELSE stored.isReported,
         moderationStatus |-> IF d.moderationStatus # loaded.moderationStatus
                              THEN d.moderationStatus ELSE stored.moderationStatus]

\* Faulty variant of addReport: the earlier report is not looked for.
addReport_noDuplicateCheck(comment, userId, feedback) ==
    IF feedback \notin Feedbacks
    THEN [error |-> "Validation failed", comment |-> comment]
    ELSE [error |-> "",
          comment |-> [comment EXCEPT
              !.reports = Append(@, [reportedBy |-> userId, feedback |-> feedback,
                                     status |-> "pending"]),
              !.isReported = TRUE]]

\* addReport up to its save(): the error it throws ("" for none) and the
\* document it hands to save().  A feedback outside the schema's enum fails
\* the save's validation.
addReport(comment, userId, feedback) ==
    IF HasReported(comment, userId)
    THEN [error |-> "You have already reported this comment", comment |-> comment]
    ELSE IF feedback \notin Feedbacks
    THEN [error |-> "Validation failed", comment |-> comment]
    ELSE [error |-> "",
          comment |-> [comment EXCEPT
              !.reports = Append(@, [reportedBy |-> userId, feedback |-> feedback,
                                     status |-> "pending"]),
              !.isReported = TRUE]]

\* updateReportStatus up to its save(); a report's _id is its position.
updateReportStatus(comment, reportId, status) ==
    IF reportId \notin DOMAIN comment.reports
    THEN [error |-> "Report not found", comment |-> comment]
    ELSE [error |-> "", comment |-> [comment EXCEPT !.reports[reportId].status = status]]

\* Faulty variant of moderate: approving makes the comment active again.
moderate_approveReactivates(comment, status) ==
    [comment EXCEPT !.moderationStatus = status,
                    !.isActive = IF status = "removed" THEN FALSE
                                 ELSE IF status = "approved" THEN TRUE ELSE @]

\* moderate up to its save().
moderate(comment, status) ==
    [comment EXCEPT !.moderationStatus = status,
                    !.isActive = IF status = "removed" THEN FALSE ELSE @]

(***************************************************************************)
(* Comment controller.                                                     *)
(***************************************************************************)
createComment(u, p, content) ==
    /\ protect(u)
    /\ Len(comments) < MaxComments
    /\ UNCHANGED <<client, users, posts, tags, announcements, searches, now, reqs>>
    /\ lastVote' = NoLastVote
    /\ IF p = 0 \/ content = ""
       THEN /\ res' = Response(400, "Please provide post ID and content")
            /\ UNCHANGED comments
       ELSE IF p \notin DOMAIN posts
       THEN /\ res' = Response(404, "Post not found")
            /\ UNCHANGED comments
       ELSE IF privatePostOfAnother(posts[p], u)
       THEN /\ res' = Response(403, "Cannot comment on private post")
            /\ UNCHANGED comments
       ELSE /\ comments' = Append(comments, NewComment(p, u, content))
            /\ res' = Response(201, "Comment created successfully")

\* Faulty variant of updateComment: the ownership is not checked.
updateComment_noOwnershipCheck(u, c, content) ==
    /\ protect(u)
    /\ UNCHANGED <<client, users, posts, tags, announcements, searches, now, reqs>>
    /\ lastVote' = NoLastVote
    /\ IF c \notin DOMAIN comments
       THEN /\ res' = Response(404, "Comment not found")
            /\ UNCHANGED comments
       ELSE IF content = ""
       THEN /\ res' = Response(400, "Please provide content")
            /\ UNCHANGED comments
       ELSE /\ comments' = [comments EXCEPT
                   ![c] = saveComment(@, @, [@ EXCEPT !.content = content])]
            /\ res' = Response(200, "Comment updated successfully")

\* checkCommentOwnership runs before the handler: 404, then 403, then the
\* handler's own validation.
updateComment(u, c, content) ==
    /\ protect(u)
    /\ UNCHANGED <<client, users, posts, tags, announcements, searches, now, reqs>>
    /\ lastVote' = NoLastVote
    /\ IF c \notin DOMAIN comments
       THEN /\ res' = Response(404, "Comment not found")
            /\ UNCHANGED comments
       ELSE IF comments[c].author # u /\ users[u].role # "admin"
       THEN /\ res' = Response(403, "Not authorized to access this comment")
            /\ UNCHANGED comments
       ELSE IF content = ""
       THEN /\ res' = Response(400, "Please provide content")
            /\ UNCHANGED comments
       ELSE /\ comments' = [comments EXCEPT
                   ![c] = saveComment(@, @, [@ EXCEPT !.content = content])]
            /\ res' = Response(200, "Comment updated successfully")

deleteComment(u, c) ==
    /\ protect(u)
    /\ UNCHANGED <<client, users, posts, tags, announcements, searches, now, reqs>>
    /\ lastVote' = NoLastVote
    /\ IF c \notin DOMAIN comments
       THEN /\ res' = Response(404, "Comment not found")
            /\ UNCHANGED comments
       ELSE IF comments[c].author # u /\ users[u].role # "admin"
       THEN /\ res' = Response(403, "Not authorized to access this comment")
            /\ UNCHANGED comments
       ELSE /\ comments' = [comments EXCEPT
                   ![c] = saveComment(@, @, [@ EXCEPT !.isActive = FALSE])]
            /\ res' = Response(200, "Comment deleted successfully")

\* The answer of reportComment to what addReport threw.
ReportResponse(error) ==
    IF error = "" THEN Response(200, "Comment reported successfully")
    ELSE IF error = "You have already reported this comment" THEN Response(400, error)
    ELSE Response(500, error)

\* reportComment, run without another request in between.
reportComment(u, c, feedback) ==
    /\ protect(u)
    /\ UNCHANGED <<client, users, posts, tags, announcements, searches, now, reqs>>
    /\ lastVote' = NoLastVote
    /\ IF feedback = ""
       THEN /\ res' = Response(400, "Please provide feedback for the report")
            /\ UNCHANGED comments
       ELSE IF c \notin DOMAIN comments
       THEN /\ res' = Response(404, "Comment not found")
            /\ UNCHANGED comments
       ELSE IF ~comments[c].isActive
       THEN /\ res' = Response(400, "Cannot report an inactive comment")
            /\ UNCHANGED comments
       ELSE LET added == addReport(comments[c], u, feedback)
            IN  /\ Len(added.comment.reports) <= MaxReports
                /\ res' = ReportResponse(added.error)
                /\ comments' = IF added.error = ""
                               THEN [comments EXCEPT
                                        ![c] = saveComment(@, @, added.comment)]
                               ELSE comments

\* reportComment as the two steps its await divides it into.  The first step
\* validates the request, loads the comment and checks it:
reportComment_find(r, u, c, feedback) ==
    /\ protect(u)
    /\ reqs[r].pc = "idle"
    /\ UNCHANGED <<client, users, posts, tags, comments, announcements, searches, now>>
    /\ lastVote' = NoLastVote
    /\ IF feedback = ""
       THEN /\ res' = Response(400, "Please provide feedback for the report")
            /\ UNCHANGED reqs
       ELSE IF c \notin DOMAIN comments
       THEN /\ res' = Response(404, "Comment not found")
            /\ UNCHANGED reqs
       ELSE IF ~comments[c].isActive
       THEN /\ res' = Response(400, "Cannot report an inactive comment")
            /\ UNCHANGED reqs
       ELSE /\ reqs' = [reqs EXCEPT ![r] = [pc |-> "found", user |-> u, id |-> c,
                                            feedback |-> feedback, comment |-> comments[c]]]
            /\ UNCHANGED res

\* ... the second runs addReport on the loaded document and stores its save.
reportComment_addReport(r) ==
    /\ reqs[r].pc = "found"
    /\ UNCHANGED <<client, users, posts, tags, announcements, searches, now>>
    /\ lastVote' = NoLastVote
    /\ LET c == reqs[r].id
           added == addReport(reqs[r].comment, reqs[r].user, reqs[r].feedback)
       IN  /\ added.error = "" => Len(comments[c].reports) < MaxReports
           /\ res' = ReportResponse(added.error)
           /\ comments' = IF added.error = ""
                          THEN [comments EXCEPT
                                   ![c] = saveComment(@, reqs[r].comment, added.comment)]
                          ELSE comments
    /\ reqs' = [reqs EXCEPT ![r] = [pc |-> "idle"]]

(***************************************************************************)
(* Admin controller.                                                       *)
(***************************************************************************)
Actions == {"approve", "flag", "remove"}

\* The action values a request body carries: the three valid ones and another.
ActionInputs == Actions \cup {"purge"}

\* The switch on action: the moderation status ...
moderationStatusFor(action) ==
    CASE action = "approve" -> "approved"
      [] action = "flag" -> "flagged"
      [] action = "remove" -> "removed"

\* ... and the report status.
reportStatusFor(action) ==
    CASE action = "approve" -> "dismissed"
      [] action = "flag" -> "reviewed"
      [] action = "remove" -> "resolved"

\* reports.forEach: every pending report takes the status.
MarkPending(comment, status) ==
    [comment EXCEPT !.reports =
        [i \in DOMAIN @ |-> IF @[i].status = "pending"
                            THEN [@[i] EXCEPT !.status = status]
                            ELSE @[i]]]

\* The update of updateMany, applied to one matched comment:
\* { moderationStatus, 'reports.$[].status': reportStatus }.
BulkUpdate(comment, action) ==
    [comment EXCEPT !.moderationStatus = moderationStatusFor(action),
                    !.reports = [i \in DOMAIN @ |->
                                    [@[i] EXCEPT !.status = reportStatusFor(action)]]]

\* `Comment ${action}ed successfully`
ModeratedMessage(action) ==
    CASE action = "approve" -> "Comment approveed successfully"
      [] action = "flag" -> "Comment flaged successfully"
      [] action = "remove" -> "Comment removeed successfully"

\* handleReportedComment behind protect and admin; reportId 0 is none given.
\* An error thrown by updateReportStatus reaches the error handler after the
\* moderation has been saved.
handleReportedComment(u, c, action, reportId) ==
    /\ protect(u)
    /\ admin(u)
    /\ UNCHANGED <<client, users, posts, tags, announcements, searches, now, reqs>>
    /\ lastVote' = NoLastVote
    /\ IF action \notin Actions
       THEN /\ res' = Response(400, "Please provide valid action (approve, flag, remove)")
            /\ UNCHANGED comments
       ELSE IF c \notin DOMAIN comments
       THEN /\ res' = Response(404, "Comment not found")
            /\ UNCHANGED comments
       ELSE LET loaded == comments[c]
                moderated == saveComment(loaded, loaded,
                                         moderate(loaded, moderationStatusFor(action)))
                updated == updateReportStatus(moderated, reportId, reportStatusFor(action))
            IN  IF reportId # 0
                THEN IF updated.error # ""
                     THEN /\ comments' = [comments EXCEPT ![c] = moderated]
                          /\ res' = Response(500, updated.error)
                     ELSE /\ comments' = [comments EXCEPT
                                 ![c] = saveComment(moderated, moderated, updated.comment)]
                          /\ res' = Response(200, ModeratedMessage(action))
                ELSE /\ comments' = [comments EXCEPT
                            ![c] = saveComment(moderated, moderated,
                                               MarkPending(moderated, reportStatusFor(action)))]
                     /\ res' = Response(200, ModeratedMessage(action))

\* bulkActionReportedComments behind protect and admin; commentIds is the set
\* of ids in the request's array.  updateMany runs no save hook.  The count of
\* processed comments is left out of the message.
bulkActionReportedComments(u, commentIds, action) ==
    /\ protect(u)
    /\ admin(u)
    /\ UNCHANGED <<client, users, posts, tags, announcements, searches, now, reqs>>
    /\ lastVote' = NoLastVote
    /\ IF commentIds = {}
       THEN /\ res' = Response(400, "Please provide an array of comment IDs")
            /\ UNCHANGED comments
       ELSE IF action \notin Actions
       THEN /\ res' = Response(400, "Please provide valid action (approve, flag, remove)")
            /\ UNCHANGED comments
       ELSE /\ comments' = [c \in DOMAIN comments |->
                               IF c \in commentIds
                               THEN BulkUpdate(comments[c], action)
                               ELSE comments[c]]
            /\ res' = Response(200, "Bulk action completed")

(***************************************************************************)
(* Moderation: a comment under comment and admin requests, one request at  *)
(* a time.                                                                 *)
(***************************************************************************)
\* A comment on user 2's public post exists, as createComment by any one user
\* leaves it.
InitWithComment ==
    /\ users = InitUsers
    /\ posts = <<NewPost(2, normalizeTags(<<"JS ">>))>>
    /\ tags = incrementUsage(InitTags, normalizeTags(<<"JS ">>))
    /\ \E author \in UserIds : comments = <<NewComment(1, author, "first")>>
    /\ announcements = <<>>
    /\ searches = <<>>
    /\ now = 0
    /\ reqs = [r \in 1..MaxInflight |-> [pc |-> "idle"]]
    /\ res = NoResponse
    /\ lastVote = NoLastVote
    /\ client = ClientAt(NoToken)

NextModeration ==
    \/ \E u \in UserIds, c \in IdInputs, content \in {"", "first"} :
          updateComment(u, c, content)
    \/ \E u \in UserIds, c \in IdInputs : deleteComment(u, c)
    \/ \E u \in UserIds, c \in IdInputs, f \in FeedbackInputs : reportComment(u, c, f)
    \/ \E u \in UserIds : adminDenied(u)
    \/ \E u \in UserIds, c \in IdInputs, a \in ActionInputs, reportId \in 0..MaxReports :
          handleReportedComment(u, c, a, reportId)
    \/ \E u \in UserIds, ids \in SUBSET IdInputs, a \in ActionInputs :
          bulkActionReportedComments(u, ids, a)

SpecModeration == InitWithComment /\ [][NextModeration]_vars

(***************************************************************************)
(* Report race: reportComment requests on a comment overlap at their       *)
(* await.                                                                  *)
(***************************************************************************)
NextReportRace ==
    \/ \E u \in UserIds, c \in IdInputs : deleteComment(u, c)
    \/ \E r \in 1..MaxInflight, u \in UserIds, c \in IdInputs,
          f \in FeedbackInputs : reportComment_find(r, u, c, f)
    \/ \E r \in 1..MaxInflight : reportComment_addReport(r)

SpecReportRace == InitWithComment /\ [][NextReportRace]_vars

(***************************************************************************)
(* Ownership: a post and its comments under the requests that create,      *)
(* change and delete them.                                                 *)
(***************************************************************************)
NextOwnership ==
    \/ \E u \in UserIds, p \in 0..2, content \in {"", "first"} : createComment(u, p, content)
    \/ \E u \in UserIds, c \in IdInputs, content \in {"", "edited"} :
          updateComment(u, c, content)
    \/ \E u \in UserIds, c \in IdInputs : deleteComment(u, c)
    \/ \E u \in UserIds, p \in IdInputs, v \in {"", "private"}, reqTags \in {<<>>, <<"Css">>} :
          updatePost(u, p, v, reqTags)
    \/ \E u \in UserIds, p \in IdInputs : deletePost(u, p)

SpecOwnership == InitWithPost /\ [][NextOwnership]_vars

(***************************************************************************)
(* Membership: the post limit, the upgrade and the expiry of gold, for a   *)
(* user who is one post short of the limit.                                *)
(***************************************************************************)
\* The data of the canPost answer (its postLimit entry is left out).
CanPostData(canCreatePost, postCount, membership) ==
    [canPost |-> canCreatePost,
     currentPosts |-> postCount,
     membership |-> membership,
     reason |-> IF ~canCreatePost
                THEN "Post limit reached. Upgrade to Gold membership for unlimited posts."
                ELSE "null"]

\* Faulty variant of canPost: the membership is not looked at.
canPost_ignoresMembership(u) ==
    /\ protect(u)
    /\ LET postCount == ActivePostCount(u)
       IN  res' = [status |-> 200, message |-> "",
                   data |-> CanPostData(postCount < 5, postCount, users[u].membership)]
    /\ lastVote' = NoLastVote
    /\ UNCHANGED <<client, users, posts, tags, comments, announcements, searches, now, reqs>>

\* canCreatePost, for the count postCount of the user's active posts.
canCreatePost(u, postCount) ==
    LET hasGoldMembership == hasMembership(users[u])
    IN  hasGoldMembership \/ postCount < 5

canPost(u) ==
    /\ protect(u)
    /\ LET postCount == ActivePostCount(u)
       IN  res' = [status |-> 200, message |-> "",
                   data |-> CanPostData(canCreatePost(u, postCount), postCount,
                                        users[u].membership)]
    /\ lastVote' = NoLastVote
    /\ UNCHANGED <<client, users, posts, tags, comments, announcements, searches, now, reqs>>

\* Faulty variant of upgradeMembership: a gold user is upgraded again.
upgradeMembership_noGuard(u) ==
    /\ protect(u)
    /\ lastVote' = NoLastVote
    /\ UNCHANGED <<client, posts, tags, comments, announcements, searches, now, reqs>>
    /\ users' = [users EXCEPT ![u] = upgradeToGold(@)]
    /\ res' = Response(200, "Successfully upgraded to Gold membership!")

upgradeMembership(u) ==
    /\ protect(u)
    /\ lastVote' = NoLastVote
    /\ UNCHANGED <<client, posts, tags, comments, announcements, searches, now, reqs>>
    /\ IF users[u].membership = "gold"
       THEN /\ res' = Response(400, "User already has gold membership")
            /\ UNCHANGED users
       ELSE /\ users' = [users EXCEPT ![u] = upgradeToGold(@)]
            /\ res' = Response(200, "Successfully upgraded to Gold membership!")

\* The tag lists a createPost request carries: none, and one tag.
TagInputs == {<<>>, <<"JS ">>}

\* User 2 has PostLimit - 1 active posts, as that many createPost requests
\* with the tag "JS " leave them.
InitNearLimit ==
    /\ users = InitUsers
    /\ posts = [p \in 1..(PostLimit - 1) |-> NewPost(2, normalizeTags(<<"JS ">>))]
    /\ tags = [InitTags EXCEPT !["js"].usageCount = PostLimit - 1]
    /\ comments = <<>>
    /\ announcements = <<>>
    /\ searches = <<>>
    /\ now = 0
    /\ reqs = [r \in 1..MaxInflight |-> [pc |-> "idle"]]
    /\ res = NoResponse
    /\ lastVote = NoLastVote
    /\ client = ClientAt(NoToken)

NextMembership ==
    \/ \E u \in UserIds, reqTags \in TagInputs : createPost(u, reqTags)
    \/ \E u \in UserIds : deletePost(u, 1)
    \/ \E u \in UserIds : canPost(u)
    \/ \E u \in UserIds : upgradeMembership(u)
    \/ \E u \in UserIds : requireMembership(u)
    \/ Tick(GoldPeriod)

SpecMembership == InitNearLimit /\ [][NextMembership]_vars

(***************************************************************************)
(* Post race: createPost requests overlap at the awaits between the count  *)
(* of the author's posts and Post.create.                                  *)
(***************************************************************************)
\* createPost up to Post.create: the validation, the count and the limit
\* check.
createPost_count(r, u, reqTags) ==
    /\ protect(u)
    /\ reqs[r].pc = "idle"
    /\ UNCHANGED <<client, users, posts, tags, comments, announcements, searches, now>>
    /\ lastVote' = NoLastVote
    /\ IF reqTags = <<>>
       THEN /\ res' = Response(400, "Please provide title, description, and at least one tag")
            /\ UNCHANGED reqs
       ELSE IF ~hasMembership(users[u]) /\ ActivePostCount(u) >= PostLimit
       THEN /\ res' = LimitReached
            /\ UNCHANGED reqs
       ELSE /\ reqs' = [reqs EXCEPT ![r] = [pc |-> "counted", user |-> u,
                                            tags |-> normalizeTags(reqTags)]]
            /\ UNCHANGED res

\* ... and from Post.create on.
createPost_create(r) ==
    /\ reqs[r].pc = "counted"
    /\ Len(posts) < MaxPosts
    /\ UNCHANGED <<client, users, comments, announcements, searches, now>>
    /\ lastVote' = NoLastVote
    /\ posts' = Append(posts, NewPost(reqs[r].user, reqs[r].tags))
    /\ tags' = incrementUsage(tags, reqs[r].tags)
    /\ res' = Response(201, "Post created successfully")
    /\ reqs' = [reqs EXCEPT ![r] = [pc |-> "idle"]]

NextPostRace ==
    \/ \E r \in 1..MaxInflight, u \in UserIds, reqTags \in TagInputs :
          createPost_count(r, u, reqTags)
    \/ \E r \in 1..MaxInflight : createPost_create(r)
    \/ \E u \in UserIds : deletePost(u, 1)

SpecPostRace == InitNearLimit /\ [][NextPostRace]_vars

(***************************************************************************)
(* Tags: posts are created and retagged.                                   *)
(***************************************************************************)
\* The tag lists an updatePost request carries: none; a tag of the post; a
\* tag not on the post; both; a name no Tag document has.
RetagInputs == {<<>>, <<"JS ">>, <<"Css">>, <<"js", "Css">>, <<"go">>}

NextTags ==
    \/ \E u \in UserIds : createPost(u, <<"JS ">>)
    \/ \E u \in UserIds, p \in IdInputs, reqTags \in RetagInputs : updatePost(u, p, "", reqTags)

SpecTags == InitWithPost /\ [][NextTags]_vars

(***************************************************************************)
(* Search model.                                                           *)
(***************************************************************************)
\* Searches with a searchCount of this or more are kept by the cleanup.
PopularCount == 5

\* recordSearch on the Search collection `docs` (searchedBy and resultCount
\* are left out).
recordSearch(docs, searchTerm) ==
    LET normalizedTerm == normalizeTag(searchTerm)
    IN  IF normalizedTerm \in DOMAIN docs
        THEN [docs EXCEPT ![normalizedTerm].searchCount = @ + 1,
                          ![normalizedTerm].lastSearched = now]
        ELSE [t \in DOMAIN docs \cup {normalizedTerm} |->
                 IF t = normalizedTerm
                 THEN [term |-> normalizedTerm, searchCount |-> 1, lastSearched |-> now]
                 ELSE docs[t]]

\* Faulty variant of OldSearches: the searchCount is not looked at.
OldSearches_ignoresCount(docs, days) ==
    LET cutoffDate == now - days
    IN  {t \in DOMAIN docs : docs[t].lastSearched < cutoffDate}

\* The searches that deleteMany matches for a cleanup of `days` days.
OldSearches(docs, days) ==
    LET cutoffDate == now - days
    IN  {t \in DOMAIN docs :
            docs[t].lastSearched < cutoffDate /\ docs[t].searchCount < PopularCount}

\* Search.cleanupOldSearches(days); `res` takes the result deleteMany
\* resolves to.
cleanupOldSearches(days) ==
    /\ LET deleted == OldSearches(searches, days)
       IN  /\ searches' = [t \in DOMAIN searches \ deleted |-> searches[t]]
           /\ res' = [status |-> 0, message |-> "", deletedCount |-> Cardinality(deleted)]
    /\ lastVote' = NoLastVote
    /\ UNCHANGED <<client, users, posts, tags, comments, announcements, now, reqs>>

\* searchPosts by its q parameter (the tags parameter is left out): the search
\* is recorded; the posts found are not part of the modelled answer.
searchPosts(searchTerm) ==
    /\ lastVote' = NoLastVote
    /\ UNCHANGED <<client, users, posts, tags, comments, announcements, now, reqs>>
    /\ IF searchTerm = ""
       THEN /\ res' = Response(400, "Please provide search term or tags")
            /\ UNCHANGED searches
       ELSE /\ normalizeTag(searchTerm) \in DOMAIN searches =>
                   searches[normalizeTag(searchTerm)].searchCount < MaxSearchCount
            /\ searches' = recordSearch(searches, searchTerm)
            /\ res' = Response(200, "")

(***************************************************************************)
(* Announcement and Tag controllers, user deactivation.                    *)
(***************************************************************************)
\* An Announcement as createAnnouncement stores it for an admin.
NewAnnouncement(author) ==
    [author |-> author,
     targetAudience |-> "all",
     isActive |-> TRUE,
     isPinned |-> FALSE,
     expiresAt |-> NoDate]

\* pre('save') of an Announcement: past its expiry it is inactive.
announcementPreSave(announcement) ==
    IF announcement.expiresAt # NoDate /\ announcement.expiresAt <= now
    THEN [announcement EXCEPT !.isActive = FALSE]
    ELSE announcement

deleteAnnouncement(u, a) ==
    /\ protect(u)
    /\ admin(u)
    /\ lastVote' = NoLastVote
    /\ UNCHANGED <<client, users, posts, tags, comments, searches, now, reqs>>
    /\ IF a \notin DOMAIN announcements
       THEN /\ res' = Response(404, "Announcement not found")
            /\ UNCHANGED announcements
       ELSE /\ announcements' = [announcements EXCEPT
                   ![a] = announcementPreSave([@ EXCEPT !.isActive = FALSE])]
            /\ res' = Response(200, "Announcement deleted successfully")

\* deleteTag; a Tag's _id is its name.
deleteTag(u, name) ==
    /\ protect(u)
    /\ admin(u)
    /\ lastVote' = NoLastVote
    /\ UNCHANGED <<client, users, posts, comments, announcements, searches, now, reqs>>
    /\ IF name \notin DOMAIN tags
       THEN /\ res' = Response(404, "Tag not found")
            /\ UNCHANGED tags
       ELSE /\ tags' = [tags EXCEPT ![name].isActive = FALSE]
            /\ res' = Response(200, "Tag deleted successfully")

deactivateUser(u, id) ==
    /\ protect(u)
    /\ admin(u)
    /\ lastVote' = NoLastVote
    /\ UNCHANGED <<client, posts, tags, comments, announcements, searches, now, reqs>>
    /\ IF id \notin DOMAIN users
       THEN /\ res' = Response(404, "User not found")
            /\ UNCHANGED users
       ELSE IF ~users[id].isActive
       THEN /\ res' = Response(400, "User is already deactivated")
            /\ UNCHANGED users
       ELSE IF id = u
       THEN /\ res' = Response(400, "Cannot deactivate yourself")
            /\ UNCHANGED users
       ELSE /\ users' = [users EXCEPT ![id].isActive = FALSE]
            /\ res' = Response(200, "User deactivated successfully")

deactivateAccount(u) ==
    /\ protect(u)
    /\ lastVote' = NoLastVote
    /\ UNCHANGED <<client, posts, tags, comments, announcements, searches, now, reqs>>
    /\ users' = [users EXCEPT ![u].isActive = FALSE]
    /\ res' = Response(200, "Account deactivated successfully")

(***************************************************************************)
(* Lifecycle: the operations that delete or deactivate, over one record of *)
(* each kind, and the searches.                                            *)
(***************************************************************************)
\* One record of each kind, as the create handlers leave them, and two
\* searches: "js", one search short of popular, and "css", searched once.
InitLifecycle ==
    /\ users = InitUsers
    /\ posts = <<NewPost(2, normalizeTags(<<"JS ">>))>>
    /\ tags = incrementUsage(InitTags, normalizeTags(<<"JS ">>))
    /\ comments = <<NewComment(1, 2, "first")>>
    /\ announcements = <<NewAnnouncement(1)>>
    /\ searches = [t \in {"js", "css"} |->
                      [term |-> t,
                       searchCount |-> IF t = "js" THEN PopularCount - 1 ELSE 1,
                       lastSearched |-> 0]]
    /\ now = 0
    /\ reqs = [r \in 1..MaxInflight |-> [pc |-> "idle"]]
    /\ res = NoResponse
    /\ lastVote = NoLastVote
    /\ client = ClientAt(NoToken)

\* The search terms a request carries: none, and two of one normalized term.
TermInputs == {"", "JS ", "js"}

\* The ages in days a cleanup is run with: the default, and the clock's step.
DayInputs == {90, GoldPeriod}

\* The user ids a request names: the registered ones and an unknown one.
UserIdInputs == 1..(NumUsers + 1)

NextLifecycle ==
    \/ \E u \in UserIds, p \in IdInputs : deletePost(u, p)
    \/ \E u \in UserIds, c \in IdInputs : deleteComment(u, c)
    \/ \E u \in UserIds : adminDenied(u)
    \/ \E u \in UserIds, name \in {"js", "go"} : deleteTag(u, name)
    \/ \E u \in UserIds, a \in IdInputs : deleteAnnouncement(u, a)
    \/ \E u \in UserIds, id \in UserIdInputs : deactivateUser(u, id)
    \/ \E u \in UserIds : deactivateAccount(u)
    \/ \E searchTerm \in TermInputs : searchPosts(searchTerm)
    \/ \E days \in DayInputs : cleanupOldSearches(days)
    \/ Tick(GoldPeriod)

SpecLifecycle == InitLifecycle /\ [][NextLifecycle]_vars

(***************************************************************************)
(* Properties of voting (under SpecVote).                                  *)
(***************************************************************************)
VoterIds(post) == {post.voters[i].userId : i \in DOMAIN post.voters}

EntriesOf(post, userId) ==
    SelectSeq(post.voters, LAMBDA voter : voter.userId = userId)

\* C1: the stored upVote is the number of voter-list entries of type 'up' and
\* the stored downVote the number of entries of type 'down', after any
\* sequence of votePost requests.
C1_CountsMatchVoterList ==
    \A p \in DOMAIN posts :
        /\ posts[p].upVote = CountVotes(posts[p].voters, "up")
        /\ posts[p].downVote = CountVotes(posts[p].voters, "down")

\* C1 witness: a user has retracted an up-vote on a post that keeps another
\* user's down-vote.
C1_Witness ==
    /\ res.message = "Upvote removed"
    /\ posts[lastVote.post].upVote = 0
    /\ posts[lastVote.post].downVote >= 1

\* C2: no user id is in two voter-list entries, and upVote + downVote is the
\* number of distinct users in the voter list.
C2_OneEntryPerVoter ==
    \A p \in DOMAIN posts :
        /\ \A i, j \in DOMAIN posts[p].voters :
              posts[p].voters[i].userId = posts[p].voters[j].userId => i = j
        /\ posts[p].upVote + posts[p].downVote = Cardinality(VoterIds(posts[p]))

\* C2 witness: a user has changed an earlier vote to the other type on a post
\* that other users voted on too.
C2_Witness ==
    /\ lastVote.user # 0
    /\ lastVote.found.existingVote \in VoteTypes \ {lastVote.voteType}
    /\ Len(posts[lastVote.post].voters) >= 2

\* C3 as stated: when a user issues votePost with type t and then at once
\* votePost with the same t, upVote and downVote are what the first of the
\* two requests found.
C3_Original ==
    lastVote.before # NoneFound =>
        /\ posts[lastVote.post].upVote = lastVote.before.upVote
        /\ posts[lastVote.post].downVote = lastVote.before.downVote

\* C3 amended: the same, for a user who had no vote of the other type on the
\* post when the first of the two requests arrived.
C3_VoteTwiceRestoresCounts ==
    (/\ lastVote.before # NoneFound
     /\ lastVote.before.existingVote \in {NoVote, lastVote.voteType}) =>
        /\ posts[lastVote.post].upVote = lastVote.before.upVote
        /\ posts[lastVote.post].downVote = lastVote.before.downVote

\* C3 witness: a vote by a user without a vote, then its retraction, on a post
\* that has other votes.
C3_Witness ==
    /\ lastVote.before # NoneFound
    /\ lastVote.before.existingVote = NoVote
    /\ lastVote.before.upVote + lastVote.before.downVote >= 1
    /\ res.message \in {"Upvote removed", "Downvote removed"}

\* C4: Post.vote(userId, voteType) leaves exactly one entry of userId, of type
\* voteType (so getUserVote answers voteType), and the entries of every other
\* user as they were; checked for every post the requests produce.
C4_VoteReplacesOnlyOwnEntry ==
    \A p \in DOMAIN posts, u \in UserIds, t \in VoteTypes :
        LET after == vote(posts[p], u, t)
        IN  /\ getUserVote(after, u) = t
            /\ Len(EntriesOf(after, u)) = 1
            /\ WithoutVoter(after.voters, u) = WithoutVoter(posts[p].voters, u)

\* C4 witness: vote has replaced a user's earlier 'up' entry by a 'down' entry
\* while another user's entry is in the list.
C4_Witness ==
    /\ res.message = "Downvoted successfully"
    /\ lastVote.found.existingVote = "up"
    /\ Len(posts[lastVote.post].voters) >= 2

\* C5 as stated: a votePost request on a private post by a user who is not its
\* author is answered 403 and changes no post.
C5_Original ==
    [][\A u \in UserIds, p \in DOMAIN posts, t \in VoteInputs :
          (posts[p].visibility = "private" /\ posts[p].author # u /\ votePost(u, p, t))
              => (res'.status = 403 /\ posts' = posts)]_vars

\* C5 amended: such a request is rejected and changes no post; the answer is
\* 403 when the vote type is 'up' or 'down' and 400 when it is not.
C5_PrivatePostVoteRejected ==
    [][\A u \in UserIds, p \in DOMAIN posts, t \in VoteInputs :
          (posts[p].visibility = "private" /\ posts[p].author # u /\ votePost(u, p, t))
              => (/\ res'.status = IF t \in VoteTypes THEN 403 ELSE 400
                  /\ posts' = posts)]_vars

\* C5 witness: a vote on a private post that has votes was refused.
C5_Witness ==
    /\ res = Response(403, "Cannot vote on private post")
    /\ \E p \in DOMAIN posts : posts[p].visibility = "private" /\ Len(posts[p].voters) >= 1

(***************************************************************************)
(* Properties of reporting and moderation.                                 *)
(***************************************************************************)
DuplicateReport == "You have already reported this comment"

\* C6: when a user who has an entry in a comment's report list reports the
\* comment again, addReport throws the duplicate-report error and changes
\* nothing, reportComment answers 400 (with that error's message whenever it
\* gets as far as calling addReport), and the report list stays as it was.
C6_DuplicateReportRejected ==
    [][\A u \in UserIds, c \in DOMAIN comments, f \in FeedbackInputs :
          (HasReported(comments[c], u) /\ reportComment(u, c, f)) =>
              /\ addReport(comments[c], u, f) =
                     [error |-> DuplicateReport, comment |-> comments[c]]
              /\ res'.status = 400
              /\ (f # "" /\ comments[c].isActive) => res'.message = DuplicateReport
              /\ comments'[c].reports = comments[c].reports]_vars

\* C6 witness: a second report by the same user was answered with the
\* duplicate-report error.
C6_Witness ==
    /\ res = Response(400, DuplicateReport)
    /\ \E c \in DOMAIN comments : Len(comments[c].reports) >= 1

\* C7: a comment's report list holds at most one report of each reporting
\* user, also when reportComment requests of one user overlap
\* (under SpecReportRace).
C7_OneReportPerUser ==
    \A c \in DOMAIN comments :
        \A i, j \in DOMAIN comments[c].reports :
            comments[c].reports[i].reportedBy = comments[c].reports[j].reportedBy => i = j

\* C8: in every stored comment isReported is true exactly when the report list
\* is not empty.
C8_IsReportedIffReports ==
    \A c \in DOMAIN comments :
        comments[c].isReported <=> Len(comments[c].reports) > 0

\* C8 witness: a bulk action has gone over a reported comment.
C8_Witness ==
    /\ res.message = "Bulk action completed"
    /\ \E c \in DOMAIN comments : comments[c].isReported /\ Len(comments[c].reports) >= 1

\* C9: a comment whose moderationStatus is 'removed' is inactive, whichever of
\* moderate, handleReportedComment and bulkActionReportedComments removed it.
C9_RemovedIsInactive ==
    \A c \in DOMAIN comments :
        comments[c].moderationStatus = "removed" => ~comments[c].isActive

\* What C10 says a moderation action `action` makes of a comment.
ModeratedByTable(before, after, action) ==
    /\ after.moderationStatus = moderationStatusFor(action)
    /\ Len(after.reports) = Len(before.reports)
    /\ \A i \in DOMAIN before.reports :
          after.reports[i].status =
              IF before.reports[i].status = "pending"
              THEN reportStatusFor(action)
              ELSE before.reports[i].status

\* C10: a moderation action on whole comments (handleReportedComment with no
\* reportId, bulkActionReportedComments) gives each affected comment the
\* moderationStatus of the table and its pending reports the table's report
\* status, and leaves the status of the reports that were not pending.
C10_ModerationFollowsTable ==
    [][/\ \A u \in UserIds, c \in DOMAIN comments, a \in Actions :
             (handleReportedComment(u, c, a, 0) /\ res'.status = 200)
                 => ModeratedByTable(comments[c], comments'[c], a)
       /\ \A u \in UserIds, ids \in SUBSET IdInputs, a \in Actions :
             (bulkActionReportedComments(u, ids, a) /\ res'.status = 200)
                 => \A c \in ids \cap DOMAIN comments :
                        ModeratedByTable(comments[c], comments'[c], a)]_vars

(***************************************************************************)
(* Properties of membership (under SpecMembership).                        *)
(***************************************************************************)
\* The stored records.
Records == <<users, posts, tags, comments, announcements, searches>>

\* C11: a canPost request answers true for a user with effective gold
\* membership whatever the number of the user's active posts, answers
\* (active post count < 5) for any other user, and changes no record.
C11_CanPostIsPurePredicate ==
    [][\A u \in UserIds :
          canPost(u) =>
              /\ res'.data.canPost =
                     IF hasMembership(users[u]) THEN TRUE ELSE ActivePostCount(u) < 5
              /\ UNCHANGED Records]_vars

\* C11 witness: canPost has answered true to a user with five or more active
\* posts.
C11_Witness ==
    /\ "data" \in DOMAIN res
    /\ res.data.canPost
    /\ res.data.currentPosts >= 5

\* A user without effective gold membership who has five or more active posts.
AtPostLimit(u) == ~hasMembership(users[u]) /\ ActivePostCount(u) >= 5

\* What C12 says of a createPost request of user u.
PostLimitEnforced(u) ==
    /\ AtPostLimit(u) =>
           /\ res'.status = 403
           /\ "postLimit" \in DOMAIN res' /\ res'.postLimit = TRUE
           /\ posts' = posts
           /\ tags' = tags
    /\ users[u].membershipExpiry = now + GoldPeriod => res'.status = 201
    /\ (res'.status = 201 /\ Len(posts') = Len(posts) + 1)
           <=> canCreatePost(u, ActivePostCount(u))

\* C12 as stated: every createPost request of a user without effective gold
\* membership who has five or more active posts is answered 403 with
\* postLimit: true, creates no post and changes no tag counter; once the
\* user's upgradeMembership has succeeded the request succeeds; and createPost
\* accepts a request exactly when canPost reports true.
C12_Original ==
    [][\A u \in UserIds, reqTags \in TagInputs :
          createPost(u, reqTags) => PostLimitEnforced(u)]_vars

\* C12 amended: the same, for the createPost requests that carry a title, a
\* description and at least one tag; a request that lacks one is answered 400
\* whatever canPost reports.
C12_PostLimitEnforced ==
    [][\A u \in UserIds, reqTags \in TagInputs :
          createPost(u, reqTags) =>
              IF reqTags # <<>>
              THEN PostLimitEnforced(u)
              ELSE res'.status = 400 /\ posts' = posts /\ tags' = tags]_vars

\* C12 witness: a createPost request was refused at the limit while the
\* author's gold membership, obtained earlier, had run out.
C12_Witness ==
    /\ res = LimitReached
    /\ \E u \in UserIds : users[u].membership = "gold" /\ AtPostLimit(u)

\* C13: a user who has never held gold membership has at most 5 active
\* posts, also when createPost requests of that user overlap
\* (under SpecPostRace).
C13_AtMostFiveActivePosts ==
    \A u \in UserIds :
        users[u].membership = "bronze" => ActivePostCount(u) <= 5

GoldBadges(user) ==
    Cardinality({i \in DOMAIN user.badges : user.badges[i].type = "gold"})

\* C14: whatever user record the requests have produced, and at whatever
\* time, one call of upgradeToGold leaves exactly one badge of type 'gold'
\* (adding it if there was none, adding nothing if there was one), membership
\* 'gold' and membershipExpiry = call time + 365 days; a further call leaves
\* the badge list as it is and sets membership and expiry again.
C14_AtMostOneGoldBadge ==
    \A u \in UserIds :
        LET once == upgradeToGold(users[u])
            twice == upgradeToGold(once)
        IN  /\ GoldBadges(users[u]) <= 1
            /\ GoldBadges(once) = 1
            /\ GoldBadges(users[u]) = 1 => once.badges = users[u].badges
            /\ GoldBadges(users[u]) = 0 => Len(once.badges) = Len(users[u].badges) + 1
            /\ twice.badges = once.badges
            /\ once.membership = "gold" /\ twice.membership = "gold"
            /\ once.membershipExpiry = now + GoldPeriod
            /\ twice.membershipExpiry = now + GoldPeriod

\* C14 witness: a user who was upgraded holds the gold badge and time has
\* passed since, so that another call would move the expiry.
C14_Witness ==
    \E u \in UserIds :
        /\ GoldBadges(users[u]) = 1
        /\ users[u].membershipExpiry < now + GoldPeriod

\* C15: an upgradeMembership request of a user whose membership is 'gold' is
\* answered 400 and leaves the user record (membership, membershipExpiry,
\* badges) as it was.
C15_AlreadyGoldRejected ==
    [][\A u \in UserIds :
          (users[u].membership = "gold" /\ upgradeMembership(u)) =>
              /\ res' = Response(400, "User already has gold membership")
              /\ users' = users]_vars

\* C15 witness: upgradeMembership has refused a gold user at a later time
\* than that of the upgrade.
C15_Witness ==
    /\ res = Response(400, "User already has gold membership")
    /\ \E u \in UserIds :
          users[u].membership = "gold" /\ users[u].membershipExpiry < now + GoldPeriod

\* The effective tier of C16, for a membership, an expiry and the time.
EffectiveGold(membership, membershipExpiry, time) ==
    membership = "gold" /\ (membershipExpiry = NoDate \/ time < membershipExpiry)

\* The user's gold membership has an expiry and the time has reached it.
GoldExpired(u) ==
    /\ users[u].membership = "gold"
    /\ users[u].membershipExpiry # NoDate
    /\ now >= users[u].membershipExpiry

\* C16: hasMembership is the effective tier, for either membership and an
\* expiry that is unset, past, present or future; and once the time has reached the expiry,
\* requireMembership refuses the user, canPost answers (active posts < 5),
\* createPost accepts a well-formed request only below 5 active posts, and
\* none of them nor the passing of time writes the user record.
C16_EffectiveTier ==
    /\ [](\A m \in {"bronze", "gold"},
             e \in {NoDate, 0, now - 1, now, now + 1, now + GoldPeriod} :
             hasMembership([membership |-> m, membershipExpiry |-> e])
                 <=> EffectiveGold(m, e, now))
    /\ [][\A u \in UserIds :
             /\ Tick(GoldPeriod) => users' = users
             /\ GoldExpired(u) =>
                   /\ requireMembership(u) => (res'.status = 403 /\ users' = users)
                   /\ canPost(u) =>
                         /\ res'.data.canPost = (ActivePostCount(u) < 5)
                         /\ users' = users
                   /\ createPost(u, <<"JS ">>) =>
                         /\ res'.status = IF ActivePostCount(u) < 5 THEN 201 ELSE 403
                         /\ users' = users]_vars

\* C16 witness: requireMembership has refused a user whose membership is
\* 'gold' at the very instant of the expiry.
C16_Witness ==
    /\ res = Response(403, "Gold membership required for this action")
    /\ \E u \in UserIds :
          users[u].membership = "gold" /\ users[u].membershipExpiry = now

(***************************************************************************)
(* Further properties of moderation (under SpecModeration).                *)
(***************************************************************************)
\* C17: a handleReportedComment request that is answered with an error (an
\* invalid action, an unknown comment id, a reportId that is the id of no
\* report of the comment) leaves the moderationStatus, isActive and the
\* reports of every comment as they were.
C17_ErrorsLeaveCommentUnchanged ==
    [][\A u \in UserIds, c \in IdInputs, a \in ActionInputs, reportId \in 0..MaxReports :
          (handleReportedComment(u, c, a, reportId) /\ res'.status >= 400) =>
              \A k \in DOMAIN comments :
                  /\ comments'[k].moderationStatus = comments[k].moderationStatus
                  /\ comments'[k].isActive = comments[k].isActive
                  /\ comments'[k].reports = comments[k].reports]_vars

(***************************************************************************)
(* Properties of tags (under SpecTags).                                    *)
(***************************************************************************)
TagNames(tagList) == {tagList[i] : i \in DOMAIN tagList}

\* C18: createPost adds one to the usageCount of each existing tag of the new
\* post; updatePost with a new tag list subtracts one from the usageCount of
\* each tag it takes off the post, adds one to that of each tag it puts on
\* the post, and leaves that of the tags that stay on the post; no
\* usageCount is negative.
C18_UsageCountFollowsPosts ==
    /\ [](\A name \in DOMAIN tags : tags[name].usageCount >= 0)
    /\ [][/\ \A u \in UserIds :
               (createPost(u, <<"JS ">>) /\ res'.status = 201) =>
                   \A name \in DOMAIN tags :
                       tags'[name].usageCount =
                           tags[name].usageCount + IF name = "js" THEN 1 ELSE 0
          /\ \A u \in UserIds, p \in DOMAIN posts, reqTags \in RetagInputs \ {<<>>} :
               (updatePost(u, p, "", reqTags) /\ res'.status = 200) =>
                   LET old == TagNames(posts[p].tags)
                       new == TagNames(normalizeTags(reqTags))
                   IN  \A name \in DOMAIN tags :
                           tags'[name].usageCount =
                               tags[name].usageCount
                                   + (IF name \in new \ old THEN 1 ELSE 0)
                                   - (IF name \in old \ new THEN 1 ELSE 0)]_vars

(***************************************************************************)
(* Properties of the record lifecycle (under SpecLifecycle).               *)
(***************************************************************************)
\* No User, Post, Comment, Tag or Announcement record leaves its collection.
NoRecordRemoved ==
    /\ DOMAIN users \subseteq DOMAIN users'
    /\ DOMAIN posts \subseteq DOMAIN posts'
    /\ DOMAIN comments \subseteq DOMAIN comments'
    /\ DOMAIN tags \subseteq DOMAIN tags'
    /\ DOMAIN announcements \subseteq DOMAIN announcements'

\* Each deleting or deactivating request that succeeds sets isActive of its
\* record to false and changes nothing else in it.
OnlySetsInactive ==
    /\ \A u \in UserIds, p \in DOMAIN posts :
          (deletePost(u, p) /\ res'.status = 200) =>
              posts' = [posts EXCEPT ![p].isActive = FALSE]
    /\ \A u \in UserIds, c \in DOMAIN comments :
          (deleteComment(u, c) /\ res'.status = 200) =>
              comments' = [comments EXCEPT ![c].isActive = FALSE]
    /\ \A u \in UserIds, name \in DOMAIN tags :
          (deleteTag(u, name) /\ res'.status = 200) =>
              tags' = [tags EXCEPT ![name].isActive = FALSE]
    /\ \A u \in UserIds, a \in DOMAIN announcements :
          (deleteAnnouncement(u, a) /\ res'.status = 200) =>
              announcements' = [announcements EXCEPT ![a].isActive = FALSE]
    /\ \A u \in UserIds, id \in UserIds :
          (deactivateUser(u, id) /\ res'.status = 200) =>
              users' = [users EXCEPT ![id].isActive = FALSE]
    /\ \A u \in UserIds :
          deactivateAccount(u) => users' = [users EXCEPT ![u].isActive = FALSE]

\* A Search record leaves the collection only in a cleanupOldSearches(days)
\* step, and then it was last searched before now - days and has a
\* searchCount below 5.
OnlyOldSearchesRemoved ==
    LET removed == DOMAIN searches \ DOMAIN searches'
    IN  removed # {} =>
            \E days \in DayInputs :
                /\ cleanupOldSearches(days)
                /\ \A t \in removed :
                      /\ searches[t].lastSearched < now - days
                      /\ searches[t].searchCount < 5

\* C19: no step removes a User, Post, Comment, Tag or Announcement record;
\* deletePost, deleteComment, deleteTag, deleteAnnouncement, deactivateUser
\* and deactivateAccount only set isActive to false; and Search records are
\* removed by cleanupOldSearches alone, which removes only records last
\* searched before the cutoff with a searchCount below 5.
C19_OnlySoftDeletes ==
    [][NoRecordRemoved /\ OnlySetsInactive /\ OnlyOldSearchesRemoved]_vars

\* C19 witness: a cleanup has removed a search while an older-than-cutoff
\* search with a searchCount of 5 is still stored.
C19_Witness ==
    /\ "deletedCount" \in DOMAIN res
    /\ res.deletedCount >= 1
    /\ \E t \in DOMAIN searches :
          searches[t].searchCount >= 5 /\ searches[t].lastSearched < now - 90

(***************************************************************************)
(* Properties of ownership (under SpecOwnership).                          *)
(***************************************************************************)
\* User u is neither the author of the record nor an admin.
NeitherAuthorNorAdmin(record, u) ==
    record.author # u /\ users[u].role # "admin"

\* C20: an updatePost, deletePost, updateComment or deleteComment request of
\* a user who is neither the author of the post or comment nor an admin is
\* answered 403 and changes no post, comment or tag; so a step of one of
\* these requests that changes a post or a comment is one of its author or
\* of an admin.
C20_OnlyAuthorOrAdminChanges ==
    [][/\ \A u \in UserIds, p \in DOMAIN posts :
             NeitherAuthorNorAdmin(posts[p], u) =>
                 /\ \A v \in {"", "private"}, reqTags \in {<<>>, <<"Css">>} :
                       updatePost(u, p, v, reqTags) =>
                           (res'.status = 403 /\ UNCHANGED <<posts, tags>>)
                 /\ deletePost(u, p) => (res'.status = 403 /\ UNCHANGED posts)
       /\ \A u \in UserIds, c \in DOMAIN comments :
             NeitherAuthorNorAdmin(comments[c], u) =>
                 /\ \A content \in {"", "edited"} :
                       updateComment(u, c, content) =>
                           (res'.status = 403 /\ UNCHANGED comments)
                 /\ deleteComment(u, c) => (res'.status = 403 /\ UNCHANGED comments)]_vars

\* C20 witness: after its author or an admin edited a comment, a request on a
\* comment by a user who is neither was refused.
C20_Witness ==
    /\ res = Response(403, "Not authorized to access this comment")
    /\ \E c \in DOMAIN comments : comments[c].content = "edited"

(***************************************************************************)
(* Announcements: audiences, expiry and the read endpoints.                *)
(***************************************************************************)
MaxAnnouncements == 1

\* The tokens a request to a public route carries: none, or one user's.
CallerInputs == 0..NumUsers

\* optionalAuth: the user the token names when it exists and is active.
optionalAuth(u) ==
    IF u \in DOMAIN users /\ users[u].isActive THEN u ELSE NoUser

Audiences == {"all", "members", "admins"}

\* req.body fields a request may leave out.
AudienceInputs == {"", "members", "admins"}
Unset == -2
ExpiryInputs == {NoDate, 0, GoldPeriod}
FlagInputs == {"undefined", "true", "false"}

\* virtual isExpired
isExpired(announcement) ==
    announcement.expiresAt # NoDate /\ announcement.expiresAt < now

isCurrent_inclusiveExpiry(announcement) ==
    /\ announcement.isActive
    /\ (announcement.expiresAt = NoDate \/ announcement.expiresAt >= now)

\* virtual isCurrent
isCurrent(announcement) ==
    /\ announcement.isActive
    /\ (announcement.expiresAt = NoDate \/ announcement.expiresAt > now)

\* The query of getCurrentAnnouncements and of the model's
\* getAnnouncementCount: the ids of the matching documents.
CurrentQuery(targetAudience) ==
    {a \in DOMAIN announcements :
        /\ announcements[a].isActive
        /\ \/ announcements[a].expiresAt = NoDate
           \/ announcements[a].expiresAt > now
        /\ targetAudience # "all" =>
               announcements[a].targetAudience \in {targetAudience, "all"}}

\* Announcement.getCurrentAnnouncements; the order of the list is left out.
getCurrentAnnouncements(targetAudience) == CurrentQuery(targetAudience)

\* Announcement.getAnnouncementCount
countDocuments(targetAudience) == Cardinality(CurrentQuery(targetAudience))

\* The targetAudience the list endpoints compute from req.user.
listAudience(caller) ==
    IF caller # NoUser
    THEN IF users[caller].membership = "gold" THEN "members" ELSE "all"
    ELSE "all"

getAnnouncements(u) ==
    /\ LET data == getCurrentAnnouncements(listAudience(optionalAuth(u)))
       IN res' = [status |-> 200, message |-> "",
                  count |-> Cardinality(data), data |-> data]
    /\ lastVote' = NoLastVote
    /\ UNCHANGED <<client, users, posts, tags, comments, announcements, searches, now, reqs>>

getAnnouncementCount(u) ==
    /\ res' = [status |-> 200, message |-> "",
               count |-> countDocuments(listAudience(optionalAuth(u)))]
    /\ lastVote' = NoLastVote
    /\ UNCHANGED <<client, users, posts, tags, comments, announcements, searches, now, reqs>>

\* The status getAnnouncement answers caller with for a stored announcement.
getAnnouncementStatus(caller, announcement) ==
    IF ~isCurrent(announcement) THEN 404
    ELSE IF /\ announcement.targetAudience = "members"
            /\ (caller = NoUser \/ users[caller].membership # "gold")
    THEN 403
    ELSE IF /\ announcement.targetAudience = "admins"
            /\ (caller = NoUser \/ users[caller].role # "admin")
    THEN 403
    ELSE 200

\* getAnnouncement; incrementViews saves the document (views is left out).
getAnnouncement(u, a) ==
    /\ lastVote' = NoLastVote
    /\ UNCHANGED <<client, users, posts, tags, comments, searches, now, reqs>>
    /\ IF a \notin DOMAIN announcements
       THEN /\ res' = Response(404, "Announcement not found")
            /\ UNCHANGED announcements
       ELSE LET announcement == announcements[a]
                status == getAnnouncementStatus(optionalAuth(u), announcement)
            IN IF status = 404
               THEN /\ res' = Response(404, "Announcement is not active or has expired")
                    /\ UNCHANGED announcements
               ELSE IF status = 403
               THEN /\ res' = Response(403,
                            IF announcement.targetAudience = "members"
                            THEN "This announcement is for members only"
                            ELSE "This announcement is for admins only")
                    /\ UNCHANGED announcements
               ELSE /\ announcements' = [announcements EXCEPT
                            ![a] = announcementPreSave(announcement)]
                    /\ res' = [status |-> 200, message |-> "", data |-> a]

createAnnouncement(u, title, targetAudience, expiresAt) ==
    /\ protect(u)
    /\ admin(u)
    /\ Len(announcements) < MaxAnnouncements
    /\ lastVote' = NoLastVote
    /\ UNCHANGED <<client, users, posts, tags, comments, searches, now, reqs>>
    /\ IF title = ""
       THEN /\ res' = Response(400, "Please provide title and description")
            /\ UNCHANGED announcements
       ELSE /\ announcements' = Append(announcements,
                    announcementPreSave(
                        [NewAnnouncement(u) EXCEPT
                            !.targetAudience =
                                IF targetAudience = "" THEN "all" ELSE targetAudience,
                            !.expiresAt = expiresAt]))
            /\ res' = Response(201, "Announcement created successfully")

updateAnnouncement(u, a, targetAudience, expiresAt, isActive) ==
    /\ protect(u)
    /\ admin(u)
    /\ lastVote' = NoLastVote
    /\ UNCHANGED <<client, users, posts, tags, comments, searches, now, reqs>>
    /\ IF a \notin DOMAIN announcements
       THEN /\ res' = Response(404, "Announcement not found")
            /\ UNCHANGED announcements
       ELSE /\ announcements' = [announcements EXCEPT
                    ![a] = announcementPreSave(
                        [@ EXCEPT
                            !.targetAudience =
                                IF targetAudience = "" THEN @ ELSE targetAudience,
                            !.expiresAt = IF expiresAt = Unset THEN @ ELSE expiresAt,
                            !.isActive =
                                IF isActive = "undefined" THEN @ ELSE isActive = "true"])]
            /\ res' = Response(200, "Announcement updated successfully")

togglePin(u, a) ==
    /\ protect(u)
    /\ admin(u)
    /\ lastVote' = NoLastVote
    /\ UNCHANGED <<client, users, posts, tags, comments, searches, now, reqs>>
    /\ IF a \notin DOMAIN announcements
       THEN /\ res' = Response(404, "Announcement not found")
            /\ UNCHANGED announcements
       ELSE /\ announcements' = [announcements EXCEPT
                    ![a] = announcementPreSave([@ EXCEPT !.isPinned = ~@])]
            /\ res' = Response(200,
                   IF announcements'[a].isPinned
                   THEN "Announcement pinned successfully"
                   ELSE "Announcement unpinned successfully")

\* No announcement yet; user 1 is the admin, user 2 has upgraded to gold.
InitAnnouncements ==
    /\ now = 0
    /\ users = [InitUsers EXCEPT ![2] = upgradeToGold(@)]
    /\ posts = <<>>
    /\ tags = InitTags
    /\ comments = <<>>
    /\ announcements = <<>>
    /\ searches = <<>>
    /\ reqs = [r \in 1..MaxInflight |-> [pc |-> "idle"]]
    /\ res = NoResponse
    /\ lastVote = NoLastVote
    /\ client = ClientAt(NoToken)

NextAnnouncements ==
    \/ \E u \in CallerInputs : getAnnouncements(u)
    \/ \E u \in CallerInputs : getAnnouncementCount(u)
    \/ \E u \in CallerInputs, a \in IdInputs : getAnnouncement(u, a)
    \/ \E u \in UserIds : adminDenied(u)
    \/ \E u \in UserIds, title \in {"", "news"}, targetAudience \in AudienceInputs,
          expiresAt \in ExpiryInputs :
              createAnnouncement(u, title, targetAudience, expiresAt)
    \/ \E u \in UserIds, a \in IdInputs, targetAudience \in AudienceInputs,
          expiresAt \in ExpiryInputs \cup {Unset}, isActive \in FlagInputs :
              updateAnnouncement(u, a, targetAudience, expiresAt, isActive)
    \/ \E u \in UserIds, a \in IdInputs : deleteAnnouncement(u, a)
    \/ \E u \in UserIds, a \in IdInputs : togglePin(u, a)
    \/ Tick(GoldPeriod)

SpecAnnouncements == InitAnnouncements /\ [][NextAnnouncements]_vars

(***************************************************************************)
(* Properties of announcements (under SpecAnnouncements).                  *)
(***************************************************************************)
\* The announcement's expiresAt is at or before the current time.
AtOrPastExpiry(announcement) ==
    announcement.expiresAt # NoDate /\ announcement.expiresAt <= now

\* C21: an announcement whose expiresAt is at or before the current time is
\* never in the list getAnnouncements returns, never counted by
\* getAnnouncementCount, and answered 404 by getAnnouncement, whatever its
\* stored isActive; and every write of such an announcement leaves its
\* isActive false.
C21_ExpiredIsInactive ==
    [][/\ \A u \in CallerInputs :
             getAnnouncements(u) =>
                 \A a \in res'.data : ~AtOrPastExpiry(announcements[a])
       /\ \A u \in CallerInputs :
             getAnnouncementCount(u) =>
                 res'.count =
                     Cardinality({a \in getCurrentAnnouncements(
                                            listAudience(optionalAuth(u))) :
                                     ~AtOrPastExpiry(announcements[a])})
       /\ \A u \in CallerInputs, a \in IdInputs :
             (/\ getAnnouncement(u, a)
              /\ a \in DOMAIN announcements
              /\ AtOrPastExpiry(announcements[a])) => res'.status = 404
       /\ \A a \in DOMAIN announcements' :
             (/\ a \in DOMAIN announcements => announcements'[a] # announcements[a]
              /\ announcements'[a].expiresAt # NoDate
              /\ announcements'[a].expiresAt <= now') =>
                 ~announcements'[a].isActive
      ]_vars

\* C21 witness: getAnnouncement has answered 404 while every stored
\* announcement still has isActive true and expires exactly now.
C21_Witness ==
    /\ res.message = "Announcement is not active or has expired"
    /\ \A a \in DOMAIN announcements :
          announcements[a].isActive /\ announcements[a].expiresAt = now

\* C22: an announcement for which getAnnouncement would answer the caller 403
\* is never in the list getAnnouncements returns to that caller, nor counted
\* for them by getAnnouncementCount.
C22_ListRespectsAudience ==
    [][\A u \in CallerInputs :
          LET forbidden(a) ==
                  getAnnouncementStatus(optionalAuth(u), announcements[a]) = 403
          IN /\ getAnnouncements(u) => \A a \in res'.data : ~forbidden(a)
             /\ getAnnouncementCount(u) =>
                    res'.count <=
                        Cardinality({a \in DOMAIN announcements :
                                        isCurrent(announcements[a]) /\ ~forbidden(a)})
      ]_vars

(***************************************************************************)
(* Client auth store: the reducer, the load-time revalidation and the      *)
(* calls of the store. A token is named by the account it was issued to;   *)
(* a call that awaits a response is two steps, and the server's answer is  *)
(* either outcome.                                                         *)
(***************************************************************************)
Tokens == UserIds

\* The tokens localStorage may hold when the page loads.
PersistedTokens == {NoToken} \cup Tokens

\* error.response.data.message of a rejected login or register, or the default.
ErrorMessages == {"Invalid credentials", "Login failed", "Registration failed"}

authReducer_logoutKeepsToken(state, type, payload) ==
    CASE type = "LOGIN_START" ->
            [state EXCEPT !.loading = TRUE, !.error = "null"]
      [] type = "LOGIN_SUCCESS" ->
            [state EXCEPT !.user = payload.user, !.token = payload.token,
                          !.isAuthenticated = TRUE, !.loading = FALSE,
                          !.error = "null"]
      [] type = "LOGIN_FAILURE" ->
            [state EXCEPT !.user = NoUser, !.token = NoToken,
                          !.isAuthenticated = FALSE, !.loading = FALSE,
                          !.error = payload]
      [] type = "LOGOUT" ->
            [state EXCEPT !.user = NoUser,
                          !.isAuthenticated = FALSE, !.loading = FALSE,
                          !.error = "null"]
      [] type = "SET_LOADING" -> [state EXCEPT !.loading = payload]
      [] type = "UPDATE_USER" -> [state EXCEPT !.user = payload]
      [] OTHER -> state

\* authReducer; UPDATE_USER's merge of the payload into the user leaves the
\* payload's user.
authReducer(state, type, payload) ==
    CASE type = "LOGIN_START" ->
            [state EXCEPT !.loading = TRUE, !.error = "null"]
      [] type = "LOGIN_SUCCESS" ->
            [state EXCEPT !.user = payload.user, !.token = payload.token,
                          !.isAuthenticated = TRUE, !.loading = FALSE,
                          !.error = "null"]
      [] type = "LOGIN_FAILURE" ->
            [state EXCEPT !.user = NoUser, !.token = NoToken,
                          !.isAuthenticated = FALSE, !.loading = FALSE,
                          !.error = payload]
      [] type = "LOGOUT" ->
            [state EXCEPT !.user = NoUser, !.token = NoToken,
                          !.isAuthenticated = FALSE, !.loading = FALSE,
                          !.error = "null"]
      [] type = "SET_LOADING" -> [state EXCEPT !.loading = payload]
      [] type = "UPDATE_USER" -> [state EXCEPT !.user = payload]
      [] OTHER -> state

\* A step of the browser leaves the server alone.
ServerUnchanged ==
    UNCHANGED <<users, posts, tags, comments, announcements, searches, now, reqs,
                res, lastVote>>

\* checkAuth up to its await: read the persisted token; with one, call
\* getProfile, without one dispatch SET_LOADING false.
checkAuth_read ==
    /\ client.checkAuth.pc = "mount"
    /\ ServerUnchanged
    /\ LET token == client.localStorage
       IN IF token # NoToken
          THEN client' = [client EXCEPT
                   !.checkAuth = [pc |-> "getProfile", token |-> token]]
          ELSE client' = [client EXCEPT
                   !.checkAuth = [pc |-> "done", token |-> NoToken],
                   !.state = authReducer(@, "SET_LOADING", FALSE)]

\* getProfile resolved with the user: LOGIN_SUCCESS with the token read.
checkAuth_resolve(user) ==
    /\ client.checkAuth.pc = "getProfile"
    /\ ServerUnchanged
    /\ client' = [client EXCEPT
           !.checkAuth.pc = "done",
           !.state = authReducer(@, "LOGIN_SUCCESS",
                         [user |-> user, token |-> client.checkAuth.token])]

\* getProfile rejected: remove the persisted token, LOGOUT.
checkAuth_reject ==
    /\ client.checkAuth.pc = "getProfile"
    /\ ServerUnchanged
    /\ client' = [client EXCEPT
           !.checkAuth.pc = "done",
           !.localStorage = NoToken,
           !.state = authReducer(@, "LOGOUT", FALSE)]

\* The effect that runs checkAuth has run: the calls of the store are made
\* from the rendered page.
Mounted == client.checkAuth.pc # "mount"

login_start ==
    /\ Mounted
    /\ client.login = "idle"
    /\ ServerUnchanged
    /\ client' = [client EXCEPT
           !.login = "waiting",
           !.state = authReducer(@, "LOGIN_START", FALSE)]

login_resolve(token) ==
    /\ client.login = "waiting"
    /\ ServerUnchanged
    /\ client' = [client EXCEPT
           !.login = "idle",
           !.localStorage = token,
           !.state = authReducer(@, "LOGIN_SUCCESS",
                         [user |-> token, token |-> token])]

login_reject(errorMessage) ==
    /\ client.login = "waiting"
    /\ ServerUnchanged
    /\ client' = [client EXCEPT
           !.login = "idle",
           !.state = authReducer(@, "LOGIN_FAILURE", errorMessage)]

register_start ==
    /\ Mounted
    /\ client.register = "idle"
    /\ ServerUnchanged
    /\ client' = [client EXCEPT
           !.register = "waiting",
           !.state = authReducer(@, "LOGIN_START", FALSE)]

register_resolve(token) ==
    /\ client.register = "waiting"
    /\ ServerUnchanged
    /\ client' = [client EXCEPT
           !.register = "idle",
           !.localStorage = token,
           !.state = authReducer(@, "LOGIN_SUCCESS",
                         [user |-> token, token |-> token])]

register_reject(errorMessage) ==
    /\ client.register = "waiting"
    /\ ServerUnchanged
    /\ client' = [client EXCEPT
           !.register = "idle",
           !.state = authReducer(@, "LOGIN_FAILURE", errorMessage)]

\* logout up to its awaits.
logout_start ==
    /\ Mounted
    /\ client.logout = "idle"
    /\ ServerUnchanged
    /\ client' = [client EXCEPT !.logout = "waiting"]

\* The finally block of logout, whether the request succeeded (ok) or failed.
logout_finally(ok) ==
    /\ client.logout = "waiting"
    /\ ServerUnchanged
    /\ client' = [client EXCEPT
           !.logout = "idle",
           !.localStorage = NoToken,
           !.state = authReducer(@, "LOGOUT", FALSE)]

updateProfile_start ==
    /\ Mounted
    /\ client.updateProfile = "idle"
    /\ ServerUnchanged
    /\ client' = [client EXCEPT !.updateProfile = "waiting"]

updateProfile_resolve(user) ==
    /\ client.updateProfile = "waiting"
    /\ ServerUnchanged
    /\ client' = [client EXCEPT
           !.updateProfile = "idle",
           !.state = authReducer(@, "UPDATE_USER", user)]

updateProfile_reject ==
    /\ client.updateProfile = "waiting"
    /\ ServerUnchanged
    /\ client' = [client EXCEPT !.updateProfile = "idle"]

\* The AuthProvider mounts with any token, or none, persisted.
InitClient ==
    /\ users = InitUsers
    /\ posts = <<>>
    /\ tags = InitTags
    /\ comments = <<>>
    /\ announcements = <<>>
    /\ searches = <<>>
    /\ now = 0
    /\ reqs = [r \in 1..MaxInflight |-> [pc |-> "idle"]]
    /\ res = NoResponse
    /\ lastVote = NoLastVote
    /\ client \in {ClientAt(token) : token \in PersistedTokens}

NextClient ==
    \/ checkAuth_read
    \/ \E user \in UserIds : checkAuth_resolve(user)
    \/ checkAuth_reject
    \/ login_start
    \/ \E token \in Tokens : login_resolve(token)
    \/ \E errorMessage \in ErrorMessages : login_reject(errorMessage)
    \/ register_start
    \/ \E token \in Tokens : register_resolve(token)
    \/ \E errorMessage \in ErrorMessages : register_reject(errorMessage)
    \/ logout_start
    \/ \E ok \in BOOLEAN : logout_finally(ok)
    \/ updateProfile_start
    \/ \E user \in UserIds : updateProfile_resolve(user)
    \/ updateProfile_reject

SpecClient == InitClient /\ [][NextClient]_vars

\* checkAuth runs when the provider mounts, and its getProfile call settles:
\* the request resolves or rejects.
SpecClientLoad ==
    /\ InitClient
    /\ [][NextClient]_vars
    /\ WF_vars(checkAuth_read)
    /\ WF_vars((\E user \in UserIds : checkAuth_resolve(user)) \/ checkAuth_reject)

(***************************************************************************)
(* Properties of the client auth store.                                    *)
(***************************************************************************)
LoggedOut(state) ==
    state.user = NoUser /\ state.token = NoToken /\ ~state.isAuthenticated

\* C23 (under SpecClientLoad): checkAuth calls getProfile exactly when a
\* token is persisted; when getProfile resolves the store is authenticated
\* with the token read; when it rejects the persisted token is removed and
\* the store is logged out; without a persisted token only loading changes;
\* and loading eventually becomes false.
C23_LoadRevalidates ==
    /\ [][/\ checkAuth_read =>
                IF client.localStorage # NoToken
                THEN /\ client'.checkAuth.pc = "getProfile"
                     /\ client'.state = client.state
                ELSE client'.state = [client.state EXCEPT !.loading = FALSE]
          /\ \A user \in UserIds :
                checkAuth_resolve(user) =>
                    /\ client'.state.isAuthenticated
                    /\ client'.state.user = user
                    /\ client'.state.token = client.checkAuth.token
                    /\ client'.state.token # NoToken
                    /\ ~client'.state.loading
          /\ checkAuth_reject =>
                /\ client'.localStorage = NoToken
                /\ LoggedOut(client'.state)
                /\ ~client'.state.loading
         ]_vars
    /\ <>(~client.state.loading)

\* C23 witness: the revalidation of a persisted token has ended with the
\* store authenticated with that token.
C23_Witness ==
    /\ client.checkAuth.pc = "done"
    /\ client.checkAuth.token # NoToken
    /\ client.state.isAuthenticated
    /\ client.state.token = client.checkAuth.token
    /\ client.localStorage = client.checkAuth.token
    /\ ~client.state.loading

\* C30: whenever loading is false, state.token is the token persisted in
\* localStorage and isAuthenticated is true exactly when user and token are
\* both non-null; and after logout neither the persisted token nor
\* state.token is present, whether or not the logout request succeeded.
C30_StoreMatchesStorage ==
    /\ [](~client.state.loading =>
            /\ client.state.token = client.localStorage
            /\ client.state.isAuthenticated <=>
                   (client.state.user # NoUser /\ client.state.token # NoToken))
    /\ [][\A ok \in BOOLEAN :
             logout_finally(ok) =>
                 client'.localStorage = NoToken /\ client'.state.token = NoToken]_vars

(***************************************************************************)
(* Vote race: votePost requests overlap at the await between Post.findById *)
(* and the save() inside vote / removeVote. Both methods assign            *)
(* this.voters, so the save replaces the whole array and Mongoose makes it *)
(* conditional on the version key the document was loaded with: a save of  *)
(* a document another such save has overtaken is rejected (VersionError),  *)
(* and asyncHandler passes the error on. A request slot serves one request *)
(* and keeps how it ended.                                                 *)
(***************************************************************************)
\* votePost up to the save: validation, Post.findById, the visibility check
\* and getUserVote on the loaded document.
votePost_load(r, u, p, voteType) ==
    /\ protect(u)
    /\ reqs[r].pc = "idle"
    /\ lastVote' = NoLastVote
    /\ UNCHANGED <<client, users, posts, tags, comments, announcements, searches, now>>
    /\ IF voteType \notin VoteTypes
       THEN /\ res' = Response(400, "Please provide valid vote type (up or down)")
            /\ UNCHANGED reqs
       ELSE IF p \notin DOMAIN posts
       THEN /\ res' = Response(404, "Post not found")
            /\ UNCHANGED reqs
       ELSE IF privatePostOfAnother(posts[p], u)
       THEN /\ res' = Response(403, "Cannot vote on private post")
            /\ UNCHANGED reqs
       ELSE /\ reqs' = [reqs EXCEPT ![r] =
                          [pc |-> "loaded", user |-> u, post |-> p,
                           voteType |-> voteType, doc |-> posts[p],
                           found |-> getUserVote(posts[p], u),
                           stale |-> FALSE]]
            /\ UNCHANGED res

\* The slots after request r has stored its document: every other request
\* that loaded the same post holds an overtaken version.
Overtaken(r) ==
    [s \in DOMAIN reqs |->
        IF s # r /\ reqs[s].pc = "loaded" /\ reqs[s].post = reqs[r].post
        THEN [reqs[s] EXCEPT !.stale = TRUE]
        ELSE reqs[s]]

\* How request r ended.
Done(r, status) ==
    [pc |-> "done", user |-> reqs[r].user, post |-> reqs[r].post,
     voteType |-> reqs[r].voteType, found |-> reqs[r].found, status |-> status]

\* ... and from removeVote / vote on: the method changes the loaded document
\* and saves voters, upVote and downVote.
votePost_save(r) ==
    /\ reqs[r].pc = "loaded"
    /\ lastVote' = NoLastVote
    /\ UNCHANGED <<client, users, tags, comments, announcements, searches, now>>
    /\ LET u == reqs[r].user
           p == reqs[r].post
           voteType == reqs[r].voteType
           saved == IF reqs[r].found = voteType
                    THEN removeVote(reqs[r].doc, u)
                    ELSE vote(reqs[r].doc, u, voteType)
       IN IF reqs[r].stale
          THEN /\ res' = Response(500, "VersionError")
               /\ reqs' = [reqs EXCEPT ![r] = Done(r, 500)]
               /\ UNCHANGED posts
          ELSE /\ posts' = [posts EXCEPT ![p] =
                              [@ EXCEPT !.voters = saved.voters,
                                        !.upVote = saved.upVote,
                                        !.downVote = saved.downVote]]
               /\ reqs' = [Overtaken(r) EXCEPT ![r] = Done(r, 200)]
               /\ res' = Response(200,
                      IF reqs[r].found = voteType
                      THEN (IF voteType = "up" THEN "Upvote removed"
                                               ELSE "Downvote removed")
                      ELSE (IF voteType = "up" THEN "Upvoted successfully"
                                               ELSE "Downvoted successfully"))

\* One public post, without votes or with user 1's up-vote.
InitVoteRace ==
    /\ users = InitUsers
    /\ \E author \in UserIds, voted \in BOOLEAN :
          posts = <<IF voted
                    THEN vote(NewPost(author, normalizeTags(<<"JS ">>)), 1, "up")
                    ELSE NewPost(author, normalizeTags(<<"JS ">>))>>
    /\ tags = incrementUsage(InitTags, normalizeTags(<<"JS ">>))
    /\ comments = <<>>
    /\ announcements = <<>>
    /\ searches = <<>>
    /\ now = 0
    /\ reqs = [r \in 1..MaxInflight |-> [pc |-> "idle"]]
    /\ res = NoResponse
    /\ lastVote = NoLastVote
    /\ client = ClientAt(NoToken)

NextVoteRace ==
    \/ \E r \in 1..MaxInflight, u \in UserIds, p \in IdInputs, voteType \in VoteInputs :
          votePost_load(r, u, p, voteType)
    \/ \E r \in 1..MaxInflight : votePost_save(r)

SpecVoteRace == InitVoteRace /\ [][NextVoteRace]_vars

(***************************************************************************)
(* Properties of the vote race (under SpecVoteRace).                       *)
(***************************************************************************)
\* Every slot's request has ended, and they came from different users.
AllDoneByDifferentUsers ==
    /\ \A r \in DOMAIN reqs : reqs[r].pc = "done"
    /\ \A r, s \in DOMAIN reqs : r # s => reqs[r].user # reqs[s].user

\* C24: after interleaved votePost requests of different users on the same
\* post have all completed, every one of them has taken effect (the user's
\* vote is in the voter list, or gone from it if the request retracted it)
\* and upVote/downVote are the counts over the list.
C24_ConcurrentVotesBothApply ==
    AllDoneByDifferentUsers =>
        \A r \in DOMAIN reqs :
            LET post == posts[reqs[r].post]
            IN /\ getUserVote(post, reqs[r].user) =
                      (IF reqs[r].found = reqs[r].voteType
                       THEN NoVote ELSE reqs[r].voteType)
               /\ post.upVote = CountVotes(post.voters, "up")
               /\ post.downVote = CountVotes(post.voters, "down")

(***************************************************************************)
(* Bulk and single moderation compared (under SpecModeration).             *)
(***************************************************************************)
\* The comment handleReportedComment stores for a valid action and no
\* reportId: moderate, then every pending report marked, then save.
HandledWithoutReportId(loaded, action) ==
    LET moderated == saveComment(loaded, loaded,
                                 moderate(loaded, moderationStatusFor(action)))
    IN saveComment(moderated, moderated,
                   MarkPending(moderated, reportStatusFor(action)))

\* C25: bulkActionReportedComments on a list of one comment leaves the
\* comment with the moderationStatus, the isActive and the report statuses
\* that handleReportedComment with the same action and no reportId gives it
\* from the same state.
C25_BulkMatchesSingle ==
    [][\A u \in UserIds, c \in IdInputs, action \in Actions :
          (bulkActionReportedComments(u, {c}, action) /\ c \in DOMAIN comments) =>
              LET single == HandledWithoutReportId(comments[c], action)
                  bulk == comments'[c]
              IN /\ bulk.moderationStatus = single.moderationStatus
                 /\ bulk.isActive = single.isActive
                 /\ \A i \in DOMAIN single.reports :
                       bulk.reports[i].status = single.reports[i].status
      ]_vars

(***************************************************************************)
(* Soft deletion: a post and a comment on it under the requests that       *)
(* update, delete and moderate them.                                       *)
(***************************************************************************)
NextSoftDelete ==
    \/ \E u \in UserIds, p \in IdInputs, v \in {"", "private"} :
          updatePost(u, p, v, <<>>)
    \/ \E u \in UserIds, p \in IdInputs : deletePost(u, p)
    \/ \E u \in UserIds, c \in IdInputs, content \in {"", "edited"} :
          updateComment(u, c, content)
    \/ \E u \in UserIds, c \in IdInputs : deleteComment(u, c)
    \/ \E u \in UserIds : adminDenied(u)
    \/ \E u \in UserIds, c \in IdInputs, a \in Actions :
          handleReportedComment(u, c, a, 0)
    \/ \E u \in UserIds, ids \in SUBSET IdInputs, a \in Actions :
          bulkActionReportedComments(u, ids, a)

SpecSoftDelete == InitWithComment /\ [][NextSoftDelete]_vars

\* C26: once a Post's or a Comment's isActive is false, no request sets it
\* back to true: not a moderation action 'approve', not an update by the
\* author or an admin, not any other handler.
C26_InactiveStaysInactive ==
    [][/\ \A p \in DOMAIN posts : ~posts[p].isActive => ~posts'[p].isActive
       /\ \A c \in DOMAIN comments : ~comments[c].isActive => ~comments'[c].isActive
      ]_vars

\* C26 witness: an admin's 'approve' has been carried out on a comment that
\* is inactive, on a post that is inactive too.
C26_Witness ==
    /\ res.message = "Comment approveed successfully"
    /\ \E c \in DOMAIN comments :
          ~comments[c].isActive /\ comments[c].moderationStatus = "approved"
    /\ \E p \in DOMAIN posts : ~posts[p].isActive

(***************************************************************************)
(* Accounts: tokens, protect, the auth controller and the admin's user     *)
(* management. An account's email is named by its _id; a stored password   *)
(* is named by its plaintext, "" where the account has none.               *)
(***************************************************************************)
\* JWT_EXPIRE, 7d by default.
TokenDays == 7

\* A request without a token.
NoBearer == [id |-> NoUser, exp |-> 0]

\* generateToken: the user's id, signed, valid for TokenDays.
generateToken(id) == [id |-> id, exp |-> now + TokenDays]

\* The tokens a request carries: none, or one the server signed for a
\* registered or an unknown user, TokenDays before the clock starts or as it
\* starts.
BearerInputs ==
    {NoBearer} \cup
    {[id |-> u, exp |-> t + TokenDays] : u \in UserIdInputs, t \in {-TokenDays, 0}}

\* The emails a request carries: none, a registered one, an unregistered one.
EmailInputs == 0..(NumUsers + 1)

PasswordInputs == {"", "secret", "changed"}

\* The accounts of InitUsers, registered with the password "secret".
InitAccounts ==
    [u \in UserIds |->
        [role |-> InitUsers[u].role,
         membership |-> InitUsers[u].membership,
         membershipExpiry |-> InitUsers[u].membershipExpiry,
         badges |-> InitUsers[u].badges,
         isActive |-> InitUsers[u].isActive,
         password |-> "secret",
         socialAuth |-> FALSE]]

\* User.create: the schema defaults and the bronze badge of pre('save').
NewUser(password, socialAuth) ==
    [role |-> "user",
     membership |-> "bronze",
     membershipExpiry |-> NoDate,
     badges |-> <<[type |-> "bronze", earnedAt |-> now]>>,
     isActive |-> TRUE,
     password |-> password,
     socialAuth |-> socialAuth]

protectMessage_skipsActiveCheck(token) ==
    IF token.id = NoUser THEN "Not authorized to access this route"
    ELSE IF token.exp <= now THEN "Token expired"
    ELSE IF token.id \notin DOMAIN users THEN "No user found with this token"
    ELSE ""

\* protect on a token: the message of its 401, or "" where it calls next().
protectMessage(token) ==
    IF token.id = NoUser THEN "Not authorized to access this route"
    ELSE IF token.exp <= now THEN "Token expired"
    ELSE IF token.id \notin DOMAIN users THEN "No user found with this token"
    ELSE IF ~users[token.id].isActive THEN "User account is deactivated"
    ELSE ""

\* A request to a protected route that protect answers itself.
protectDenied(token) ==
    /\ protectMessage(token) # ""
    /\ res' = Response(401, protectMessage(token))
    /\ lastVote' = NoLastVote
    /\ UNCHANGED <<client, users, posts, tags, comments, announcements, searches, now, reqs>>

\* sendTokenResponse
sendTokenResponse(id, statusCode, message) ==
    [status |-> statusCode, message |-> message,
     token |-> generateToken(id), user |-> id]

register(email, password) ==
    /\ lastVote' = NoLastVote
    /\ UNCHANGED <<client, posts, tags, comments, announcements, searches, now, reqs>>
    /\ IF email = 0 \/ password = ""
       THEN /\ res' = Response(400, "Please provide name, email and password")
            /\ UNCHANGED users
       ELSE IF email \in DOMAIN users
       THEN /\ res' = Response(400, "User already exists with this email")
            /\ UNCHANGED users
       ELSE /\ users' = Append(users, NewUser(password, FALSE))
            /\ res' = sendTokenResponse(email, 201, "User registered successfully")

\* login; matchPassword on an account without a password throws.
login(email, password) ==
    /\ lastVote' = NoLastVote
    /\ UNCHANGED <<client, users, posts, tags, comments, announcements, searches, now, reqs>>
    /\ IF email = 0 \/ password = ""
       THEN res' = Response(400, "Please provide an email and password")
       ELSE IF email \notin DOMAIN users
       THEN res' = Response(401, "Invalid credentials")
       ELSE IF users[email].password = ""
       THEN res' = Response(500, "Illegal arguments")
       ELSE IF users[email].password # password
       THEN res' = Response(401, "Invalid credentials")
       ELSE IF ~users[email].isActive
       THEN res' = Response(401, "Account is deactivated. Please contact administrator.")
       ELSE res' = sendTokenResponse(email, 200, "Login successful")

\* socialAuth; provider stands for name, provider and providerId.
socialAuth(email, provider) ==
    /\ lastVote' = NoLastVote
    /\ UNCHANGED <<client, posts, tags, comments, announcements, searches, now, reqs>>
    /\ IF email = 0 \/ provider = ""
       THEN /\ res' = Response(400, "Please provide all required social auth data")
            /\ UNCHANGED users
       ELSE LET stored == IF email \in DOMAIN users
                          THEN [users EXCEPT ![email].socialAuth = TRUE]
                          ELSE Append(users, NewUser("", TRUE))
            IN /\ users' = stored
               /\ IF ~stored[email].isActive
                  THEN res' = Response(401,
                                "Account is deactivated. Please contact administrator.")
                  ELSE res' = sendTokenResponse(email, 200,
                                "Social authentication successful")

getMe(token) ==
    /\ protectMessage(token) = ""
    /\ res' = [status |-> 200, message |-> "", data |-> token.id]
    /\ lastVote' = NoLastVote
    /\ UNCHANGED <<client, users, posts, tags, comments, announcements, searches, now, reqs>>

updatePassword(token, currentPassword, newPassword) ==
    /\ protectMessage(token) = ""
    /\ lastVote' = NoLastVote
    /\ UNCHANGED <<client, posts, tags, comments, announcements, searches, now, reqs>>
    /\ LET user == users[token.id]
       IN IF currentPassword = "" \/ newPassword = ""
          THEN /\ res' = Response(400, "Please provide current password and new password")
               /\ UNCHANGED users
          ELSE IF user.socialAuth /\ user.password = ""
          THEN /\ res' = Response(400,
                            "Cannot update password for social authentication account")
               /\ UNCHANGED users
          ELSE IF user.password # currentPassword
          THEN /\ res' = Response(400, "Current password is incorrect")
               /\ UNCHANGED users
          ELSE /\ users' = [users EXCEPT ![token.id].password = newPassword]
               /\ res' = sendTokenResponse(token.id, 200, "Password updated successfully")

makeAdmin(u, id) ==
    /\ protect(u)
    /\ admin(u)
    /\ lastVote' = NoLastVote
    /\ UNCHANGED <<client, posts, tags, comments, announcements, searches, now, reqs>>
    /\ IF id \notin DOMAIN users
       THEN /\ res' = Response(404, "User not found")
            /\ UNCHANGED users
       ELSE IF users[id].role = "admin"
       THEN /\ res' = Response(400, "User is already an admin")
            /\ UNCHANGED users
       ELSE /\ users' = [users EXCEPT ![id].role = "admin"]
            /\ res' = Response(200, "User promoted to admin successfully")

removeAdmin(u, id) ==
    /\ protect(u)
    /\ admin(u)
    /\ lastVote' = NoLastVote
    /\ UNCHANGED <<client, posts, tags, comments, announcements, searches, now, reqs>>
    /\ IF id \notin DOMAIN users
       THEN /\ res' = Response(404, "User not found")
            /\ UNCHANGED users
       ELSE IF users[id].role # "admin"
       THEN /\ res' = Response(400, "User is not an admin")
            /\ UNCHANGED users
       ELSE IF id = u
       THEN /\ res' = Response(400, "Cannot remove admin role from yourself")
            /\ UNCHANGED users
       ELSE /\ users' = [users EXCEPT ![id].role = "user"]
            /\ res' = Response(200, "Admin role removed successfully")

reactivateUser(u, id) ==
    /\ protect(u)
    /\ admin(u)
    /\ lastVote' = NoLastVote
    /\ UNCHANGED <<client, posts, tags, comments, announcements, searches, now, reqs>>
    /\ IF id \notin DOMAIN users
       THEN /\ res' = Response(404, "User not found")
            /\ UNCHANGED users
       ELSE IF users[id].isActive
       THEN /\ res' = Response(400, "User is already active")
            /\ UNCHANGED users
       ELSE /\ users' = [users EXCEPT ![id].isActive = TRUE]
            /\ res' = Response(200, "User reactivated successfully")

InitAccountsStore ==
    /\ users = InitAccounts
    /\ posts = <<>>
    /\ tags = InitTags
    /\ comments = <<>>
    /\ announcements = <<>>
    /\ searches = <<>>
    /\ now = 0
    /\ reqs = [r \in 1..MaxInflight |-> [pc |-> "idle"]]
    /\ res = NoResponse
    /\ lastVote = NoLastVote
    /\ client = ClientAt(NoToken)

NextAccounts ==
    \/ \E token \in BearerInputs : protectDenied(token)
    \/ \E email \in EmailInputs, password \in PasswordInputs : register(email, password)
    \/ \E email \in EmailInputs, password \in PasswordInputs : login(email, password)
    \/ \E email \in EmailInputs, provider \in {"", "google"} : socialAuth(email, provider)
    \/ \E token \in BearerInputs : getMe(token)
    \/ \E token \in BearerInputs, currentPassword \in PasswordInputs,
          newPassword \in {"", "secret"} :
              updatePassword(token, currentPassword, newPassword)
    \/ \E u \in UserIdInputs : deactivateAccount(u)
    \/ \E u \in UserIdInputs, id \in UserIdInputs : reactivateUser(u, id)

SpecAccounts == InitAccountsStore /\ [][NextAccounts]_vars

\* The admin's user management, and the account owner's deactivation.
NextAdmins ==
    \/ \E token \in BearerInputs : protectDenied(token)
    \/ \E token \in BearerInputs : getMe(token)
    \/ \E u \in UserIdInputs : adminDenied(u)
    \/ \E u \in UserIdInputs : deactivateAccount(u)
    \/ \E u \in UserIdInputs, id \in UserIdInputs : makeAdmin(u, id)
    \/ \E u \in UserIdInputs, id \in UserIdInputs : removeAdmin(u, id)
    \/ \E u \in UserIdInputs, id \in UserIdInputs : deactivateUser(u, id)
    \/ \E u \in UserIdInputs, id \in UserIdInputs : reactivateUser(u, id)
    \/ Tick(GoldPeriod)

SpecAdmins == InitAccountsStore /\ [][NextAdmins]_vars

(***************************************************************************)
(* Properties of accounts (under SpecAdmins and SpecAccounts).             *)
(***************************************************************************)
ActiveAdmins == {u \in DOMAIN users : users[u].isActive /\ users[u].role = "admin"}

\* C27 (under SpecAdmins): after any sequence of makeAdmin, removeAdmin,
\* deactivateUser and deactivateAccount requests there is still an active
\* user with role 'admin'; removeAdmin and deactivateUser change nothing
\* when the user they name is the requesting admin.
C27_AnActiveAdminRemains ==
    /\ [](ActiveAdmins # {})
    /\ [][\A u \in UserIdInputs :
             (removeAdmin(u, u) \/ deactivateUser(u, u)) => UNCHANGED users]_vars

\* The user the token names is registered and deactivated.
Deactivated(token) ==
    token.id \in DOMAIN users /\ ~users[token.id].isActive

\* C28 (under SpecAccounts): while a user's isActive is false, protect
\* answers every request with that user's token 401 and no protected
\* handler runs for it, optionalAuth attaches no user, and login and
\* socialAuth answer without a token; and once reactivateUser has succeeded
\* protect passes every unexpired token of that user.
C28_DeactivatedIsLockedOut ==
    /\ [](\A token \in BearerInputs :
             Deactivated(token) =>
                 /\ protectMessage(token) # ""
                 /\ ~protect(token.id)
                 /\ optionalAuth(token.id) = NoUser)
    /\ [][/\ \A token \in BearerInputs :
                /\ protectDenied(token) => (res'.status = 401 /\ UNCHANGED users)
                /\ Deactivated(token) =>
                      /\ ~getMe(token)
                      /\ ~deactivateAccount(token.id)
                      /\ \A currentPassword \in PasswordInputs,
                            newPassword \in PasswordInputs :
                               ~updatePassword(token, currentPassword, newPassword)
                      /\ \A id \in UserIdInputs : ~reactivateUser(token.id, id)
          /\ \A email \in EmailInputs :
                (email \in DOMAIN users /\ ~users[email].isActive) =>
                    /\ \A password \in PasswordInputs :
                          login(email, password) => "token" \notin DOMAIN res'
                    /\ \A provider \in {"", "google"} :
                          socialAuth(email, provider) => "token" \notin DOMAIN res'
          /\ \A u \in UserIdInputs, id \in UserIdInputs :
                (reactivateUser(u, id) /\ res'.status = 200) =>
                    \A token \in BearerInputs :
                        (token.id = id /\ token.exp > now) =>
                            (protectMessage(token) = "")'
         ]_vars

\* C28 witness: protect has answered 401 for the token of a deactivated
\* user, whose password login would accept.
C28_Witness ==
    /\ res = Response(401, "User account is deactivated")
    /\ \E u \in DOMAIN users : ~users[u].isActive /\ users[u].password = "secret"

\* C29 (under SpecAccounts): a response that carries a token for an account
\* that was registered with a password before the request answers a login or
\* an updatePassword request that supplied the account's password.
C29_TokenNeedsPassword ==
    [][\A a \in UserIdInputs :
          (/\ a \in DOMAIN users
           /\ users[a].password # ""
           /\ "token" \in DOMAIN res'
           /\ res'.token.id = a) =>
              \/ login(a, users[a].password)
              \/ \E token \in BearerInputs, newPassword \in PasswordInputs :
                    token.id = a /\ updatePassword(token, users[a].password, newPassword)
      ]_vars

====
